---------------------------- MODULE Spec2Model ----------------------------
(***************************************************************************)
(* Mini ECU v2: the physical vehicle model (vehicle.c) and the UART        *)
(* command line interface (cli_if.c): receive interrupt, ring buffer,      *)
(* line assembly and command dispatch.                                     *)
(*                                                                         *)
(* Numbers.  A C float is modelled as an integer count of hundredths       *)
(* (42.5 is 4250), with truncation toward zero where a product is not a    *)
(* whole number of hundredths, and with one extra value NaN for which      *)
(* every ordered comparison is false and which every arithmetic            *)
(* operation propagates.  uint16_t and uint8_t values are plain integers   *)
(* reduced modulo 2^16 and 2^8 where the C code narrows them.              *)
(***************************************************************************)
EXTENDS Integers, Sequences, FiniteSets

VARIABLES
    \* ---- vehicle.c
    speed_kph,       \* VehicleState_t.speed_kph       (float, hundredths or NaN)
    engine_rpm,      \* VehicleState_t.engine_rpm      (uint16_t)
    coolant_temp_c,  \* VehicleState_t.coolant_temp_c  (float, hundredths or NaN)
    vuPc,            \* position of the caller inside Vehicle_Update
    nOps,            \* number of PhysicalModel API calls made so far
    \* ---- cli_if.c, interrupt side
    s_cliBuf,        \* ring buffer, one byte per slot 0..CLI_RX_BUF_SIZE-1
    s_cliHead,       \* write index
    s_cliTail,       \* read index
    s_rxByte,        \* the one-byte cell HAL_UART_Receive_IT fills
    rxArmed,         \* TRUE while a single-byte reception is armed
    isrPc,           \* position inside the receive interrupt
    \* ---- cli_if.c, task side
    taskPc,          \* position inside CLI_IF_Task / cli_pop
    rh,              \* the value of s_cliHead that cli_pop read (0 once compared)
    c,               \* CLI_IF_Task's local byte, written through cli_pop's pointer
    popRet,          \* what the last cli_pop returned (0 or 1)
    line,            \* cli_handle_char's static line[32]
    idx,             \* cli_handle_char's static cursor
    dashCounter,     \* CLI_IF_Task's static poll counter
    s_vehicle,       \* TRUE when a vehicle is bound to the CLI
    \* ---- collaborators
    s_canLogging,    \* the bus-receive logging flag (CAN_IF_SetLogging)
    s_logLevel,      \* log.c minimum severity
    s_logUart,       \* TRUE when log.c has a sink (Log_Init)
    logCall,         \* the arguments of the last direct Log_Write call
    \* ---- environment and observation
    typed,           \* bytes the terminal will still send, in order
    pollsLeft,       \* polls of CLI_IF_Task the scheduler will still make
    arrivedInPoll,   \* TRUE when cli_push ran since the current poll began
    accepted,        \* bytes cli_push stored, in order
    popped,          \* bytes cli_pop returned, in order
    nDropped,        \* bytes cli_push dropped
    parsed,          \* bytes passed to cli_handle_char, in order
    handled,         \* what the last cli_handle_char call did
    uartTx,          \* bytes the last cli_handle_char call sent to the terminal
    logTx,           \* the log lines the last call emitted, one per transmission
    nDraws,          \* dashboard lines rendered so far
    \* ---- the bus interface (can_if)
    canTx,           \* the frame the last CAN_IF_SendTelemetry call sent
    canWire,         \* frames the bus will still deliver, in order
    canQueue,        \* the bounded receive queue, oldest first
    canMsg,          \* CanRxTask's local frame, as popped from the queue
    canTaskPc,       \* position of CanRxTask: "get" or "process"
    canAccepted,     \* frames the receive interrupt queued, in order
    canProcessed,    \* frames CAN_IF_ProcessRxMsg was called with, in order
    canDropped,      \* frames the receive interrupt dropped
    \* ---- the bootloader (mini_ecu_boot main.c)
    bootPc,          \* position of the bootloader
    b1Pin,           \* level of the B1 input at startup (1 = GPIO_PIN_SET)
    flash,           \* the first two words of the image at APP_START_ADDR
    appStack,        \* JumpToApplication's local appStack
    appReset,        \* JumpToApplication's local appReset
    bootHw,          \* HAL, clock, SysTick, NVIC, VTOR, MSP and LD2
    nvicI,           \* JumpToApplication's loop index i
    bootTrace,       \* the steps JumpToApplication has made, in order
    bootTx           \* messages Boot_Print has sent, in order

vehVars == <<speed_kph, engine_rpm, coolant_temp_c>>
vehCtl == <<vuPc, nOps>>
isrVars == <<s_cliBuf, s_cliHead, s_rxByte, rxArmed, isrPc, typed, accepted, nDropped>>
popVars == <<s_cliTail, rh, c, popRet, popped>>
lineVars == <<line, idx, parsed, handled, uartTx, logTx>>
cfgVars == <<s_vehicle, s_canLogging, s_logLevel, s_logUart, logCall>>
pollVars == <<taskPc, dashCounter, pollsLeft, nDraws, arrivedInPoll>>
canVars == <<canTx, canWire, canQueue, canMsg, canTaskPc, canAccepted, canProcessed,
             canDropped>>
bootVars == <<bootPc, b1Pin, flash, appStack, appReset, bootHw, nvicI, bootTrace, bootTx>>
cliVars == <<isrVars, popVars, lineVars, cfgVars, pollVars, canVars, bootVars>>
vars == <<vehVars, vehCtl, cliVars>>

---------------------------------------------------------------------------
(* Bounds of the model *)

\* PhysicalModel API calls explored from the init state
MaxOps == 4

---------------------------------------------------------------------------
(* float arithmetic *)

\* hundredths per unit
Scale == 100

\* the not-a-number value of a float
NaN == -1000000000

\* a finite float of extreme magnitude (one million units)
Huge == 1000000 * Scale

IsNaN(a) == a = NaN

\* a < b on floats: false as soon as one side is NaN
FLt(a, b) == ~IsNaN(a) /\ ~IsNaN(b) /\ a < b

\* a <= b on floats
FLe(a, b) == ~IsNaN(a) /\ ~IsNaN(b) /\ a <= b

\* integer quotient rounded toward zero
TruncDiv(x, d) == IF x >= 0 THEN x \div d ELSE -((-x) \div d)

FAdd(a, b) == IF IsNaN(a) \/ IsNaN(b) THEN NaN ELSE a + b

FSub(a, b) == IF IsNaN(a) \/ IsNaN(b) THEN NaN ELSE a - b

\* a * (num / den), e.g. a * 0.98f is FMulRatio(a, 98, 100)
FMulRatio(a, num, den) == IF IsNaN(a) THEN NaN ELSE TruncDiv(a * num, den)

\* uint16_t -> float (exact)
U16ToFloat(n) == n * Scale

\* float -> uint16_t.  The fractional part is discarded; when the integral
\* part is not in 0..65535 the conversion is undefined in C: the builds
\* either saturate (hardware VCVT, soft-float f2uiz: negative and NaN give 0)
\* or convert through a signed 32-bit integer and keep the low 16 bits.
FloatToU16(a) ==
    IF IsNaN(a) THEN {0}
    ELSE LET t == TruncDiv(a, Scale)
         IN  IF t >= 0 /\ t <= 65535 THEN {t}
             ELSE IF t < 0 THEN {0, t % 65536}
             ELSE {65535, t % 65536}

---------------------------------------------------------------------------
(* vehicle.c *)

SPEED_MIN == 0 * Scale
SPEED_MAX == 200 * Scale
RPM_MIN == 600
RPM_MAX == 6000
TEMP_MIN == 20 * Scale
TEMP_MAX == 110 * Scale

clamp_f(v, min, max) ==
    IF FLt(v, min) THEN min
    ELSE IF FLt(max, v) THEN max
    ELSE v

\* Vehicle_Init: the idle defaults
Vehicle_Init ==
    /\ speed_kph = 0 * Scale
    /\ engine_rpm = 800
    /\ coolant_temp_c = 30 * Scale

\* Vehicle_Update, entry: no-op when dt <= 0, otherwise the six writes
\* below follow one by one.
Vehicle_Update(dt_s) ==
    /\ vuPc = "idle"
    /\ vuPc' = IF FLe(dt_s, 0) THEN "idle" ELSE "decay"
    /\ UNCHANGED vehVars

\* vs->speed_kph *= 0.98f;
VU_Decay ==
    /\ vuPc = "decay"
    /\ speed_kph' = FMulRatio(speed_kph, 98, 100)
    /\ vuPc' = "clampSpeed"
    /\ UNCHANGED <<engine_rpm, coolant_temp_c>>

\* vs->speed_kph = clamp_f(vs->speed_kph, 0.0f, 200.0f);
VU_ClampSpeed ==
    /\ vuPc = "clampSpeed"
    /\ speed_kph' = clamp_f(speed_kph, SPEED_MIN, SPEED_MAX)
    /\ vuPc' = "lagRpm"
    /\ UNCHANGED <<engine_rpm, coolant_temp_c>>

\* float target_rpm = 800.0f + (vs->speed_kph * 50.0f);
target_rpm == FAdd(800 * Scale, FMulRatio(speed_kph, 50, 1))

\* vs->engine_rpm += (uint16_t)((target_rpm - vs->engine_rpm) * 0.3f);
VU_LagRpm ==
    /\ vuPc = "lagRpm"
    /\ \E d \in FloatToU16(FMulRatio(FSub(target_rpm, U16ToFloat(engine_rpm)), 3, 10)) :
          engine_rpm' = (engine_rpm + d) % 65536
    /\ vuPc' = "clampRpm"
    /\ UNCHANGED <<speed_kph, coolant_temp_c>>

\* vs->engine_rpm = (uint16_t)clamp_f(vs->engine_rpm, 600.0f, 6000.0f);
VU_ClampRpm ==
    /\ vuPc = "clampRpm"
    /\ engine_rpm' \in FloatToU16(clamp_f(U16ToFloat(engine_rpm),
                                          U16ToFloat(RPM_MIN), U16ToFloat(RPM_MAX)))
    /\ vuPc' = "temp"
    /\ UNCHANGED <<speed_kph, coolant_temp_c>>

\* the temperature write taking the warm branch whatever the rpm
VU_Temp_NoThreshold ==
    /\ vuPc = "temp"
    /\ coolant_temp_c' =
          FAdd(coolant_temp_c, FMulRatio(FSub(90 * Scale, coolant_temp_c), 5, 100))
    /\ vuPc' = "clampTemp"
    /\ UNCHANGED <<speed_kph, engine_rpm>>

\* if (rpm > 1000) temp += (90 - temp) * 0.05f; else temp -= 0.01f;
VU_Temp ==
    /\ vuPc = "temp"
    /\ coolant_temp_c' =
          IF engine_rpm > 1000
          THEN FAdd(coolant_temp_c, FMulRatio(FSub(90 * Scale, coolant_temp_c), 5, 100))
          ELSE FSub(coolant_temp_c, 1)
    /\ vuPc' = "clampTemp"
    /\ UNCHANGED <<speed_kph, engine_rpm>>

\* vs->coolant_temp_c = clamp_f(vs->coolant_temp_c, 20.0f, 110.0f);
VU_ClampTemp ==
    /\ vuPc = "clampTemp"
    /\ coolant_temp_c' = clamp_f(coolant_temp_c, TEMP_MIN, TEMP_MAX)
    /\ vuPc' = "idle"
    /\ UNCHANGED <<speed_kph, engine_rpm>>

\* Vehicle_SetTargetSpeed storing the value as given
Vehicle_SetTargetSpeed_Unclamped(v) ==
    /\ speed_kph' = v
    /\ UNCHANGED <<engine_rpm, coolant_temp_c>>

Vehicle_SetTargetSpeed(v) ==
    /\ speed_kph' = clamp_f(v, SPEED_MIN, SPEED_MAX)
    /\ UNCHANGED <<engine_rpm, coolant_temp_c>>

\* Vehicle_Force storing the temperature as given
Vehicle_Force_TempUnclamped(speed, rpm, temp_c) ==
    /\ speed_kph' = clamp_f(speed, SPEED_MIN, SPEED_MAX)
    /\ engine_rpm' \in FloatToU16(clamp_f(U16ToFloat(rpm),
                                          U16ToFloat(RPM_MIN), U16ToFloat(RPM_MAX)))
    /\ coolant_temp_c' = temp_c

\* Vehicle_Force writing the temperature and resetting speed and rpm to the
\* Vehicle_Init defaults instead of storing its arguments
Vehicle_Force_ResetsMotion(speed, rpm, temp_c) ==
    /\ speed_kph' = 0
    /\ engine_rpm' = 800
    /\ coolant_temp_c' = clamp_f(temp_c, TEMP_MIN, TEMP_MAX)

Vehicle_Force(speed, rpm, temp_c) ==
    /\ speed_kph' = clamp_f(speed, SPEED_MIN, SPEED_MAX)
    /\ engine_rpm' \in FloatToU16(clamp_f(U16ToFloat(rpm),
                                          U16ToFloat(RPM_MIN), U16ToFloat(RPM_MAX)))
    /\ coolant_temp_c' = clamp_f(temp_c, TEMP_MIN, TEMP_MAX)

---------------------------------------------------------------------------
(* bootloader main.c *)

\* a 32-bit word as <<high half, low half>>
U32(hi, lo) == <<hi, lo>>

\* a < b on 32-bit words
U32Lt(a, b) == a[1] < b[1] \/ (a[1] = b[1] /\ a[2] < b[2])

\* 0x08008000
APP_START_ADDR == U32(2048, 32768)

\* 0x08000000, the vector table of the bootloader itself
BOOT_BASE == U32(2048, 0)

\* 0x20020000, the stack the bootloader runs on after reset
BOOT_STACK == U32(8194, 0)

\* NVIC->ICER[i], NVIC->ICPR[i] for i < 8
NVIC_BANKS == 8

\* the sanity check of JumpToApplication without its upper bound
StackLooksValid_NoUpperBound(sp) == ~U32Lt(sp, U32(8192, 0))

\* !((appStack < 0x20000000U) || (appStack > 0x20020000U))
StackLooksValid(sp) == ~(U32Lt(sp, U32(8192, 0)) \/ U32Lt(U32(8194, 0), sp))

\* Boot_Print: nothing is sent for an empty message (messages are recorded
\* without their line ends)
Boot_Print(tx, msg) == IF msg = "" THEN tx ELSE Append(tx, msg)

\* the machine out of reset
Boot_Reset(pin, image, pending) ==
    /\ bootPc = "main"
    /\ b1Pin = pin
    /\ flash = image
    /\ appStack = U32(0, 0)
    /\ appReset = U32(0, 0)
    /\ bootHw = [hal |-> FALSE, rcc |-> FALSE, systick |-> FALSE, iser |-> {},
                 ispr |-> pending, vtor |-> BOOT_BASE, msp |-> BOOT_STACK, led |-> 0]
    /\ nvicI = 0
    /\ bootTrace = <<>>
    /\ bootTx = <<>>

\* main: HAL_Init, SystemClock_Config, MX_GPIO_Init, MX_USART2_UART_Init,
\* the two banners and HAL_Delay(10)
Boot_Main ==
    /\ bootPc = "main"
    /\ bootHw' = [bootHw EXCEPT !.hal = TRUE, !.rcc = TRUE, !.systick = TRUE, !.led = 0]
    /\ bootTx' = Boot_Print(Boot_Print(bootTx, "[BOOT] Mini ECU v2 bootloader"),
                            "[BOOT] Hold B1 during reset to stay in bootloader.")
    /\ bootPc' = "decide"
    /\ UNCHANGED <<b1Pin, flash, appStack, appReset, nvicI, bootTrace>>

\* Boot_IsButtonPressed: GPIO_PIN_SET reads as pressed
Boot_IsButtonPressed == IF b1Pin = 1 THEN 1 ELSE 0

\* main: if (Boot_IsButtonPressed()) ... else ...
Boot_Decide ==
    /\ bootPc = "decide"
    /\ IF Boot_IsButtonPressed # 0
       THEN /\ bootTx' = Boot_Print(Boot_Print(bootTx, "[BOOT] B1 is pressed: staying in bootloader."),
                                    "[BOOT] (Future) OTA / firmware update mode.")
            /\ bootPc' = "stay"
       ELSE /\ bootTx' = Boot_Print(bootTx, "[BOOT] B1 not pressed: attempting to jump to application...")
            /\ bootPc' = "jta_read"
    /\ UNCHANGED <<b1Pin, flash, appStack, appReset, bootHw, nvicI, bootTrace>>

\* main: while (1) { HAL_GPIO_TogglePin(LD2); HAL_Delay(300); }
Boot_StayLoop ==
    /\ bootPc = "stay"
    /\ bootHw' = [bootHw EXCEPT !.led = 1 - bootHw.led]
    /\ UNCHANGED <<bootPc, b1Pin, flash, appStack, appReset, nvicI, bootTrace, bootTx>>

\* JumpToApplication: the two words read from APP_START_ADDR
JTA_Read ==
    /\ bootPc = "jta_read"
    /\ appStack' = flash.stack
    /\ appReset' = flash.reset
    /\ bootPc' = "jta_check"
    /\ UNCHANGED <<b1Pin, flash, bootHw, nvicI, bootTrace, bootTx>>

\* JumpToApplication: the sanity check; return when it fails
JTA_Check ==
    /\ bootPc = "jta_check"
    /\ bootPc' = IF StackLooksValid(appStack) THEN "rcc_deinit" ELSE "no_app"
    /\ UNCHANGED <<b1Pin, flash, appStack, appReset, bootHw, nvicI, bootTrace, bootTx>>

\* HAL_RCC_DeInit();
JTA_RccDeInit ==
    /\ bootPc = "rcc_deinit"
    /\ bootHw' = [bootHw EXCEPT !.rcc = FALSE]
    /\ bootTrace' = Append(bootTrace, "rcc_deinit")
    /\ bootPc' = "hal_deinit"
    /\ UNCHANGED <<b1Pin, flash, appStack, appReset, nvicI, bootTx>>

\* HAL_DeInit();
JTA_HalDeInit ==
    /\ bootPc = "hal_deinit"
    /\ bootHw' = [bootHw EXCEPT !.hal = FALSE]
    /\ bootTrace' = Append(bootTrace, "hal_deinit")
    /\ bootPc' = "systick"
    /\ UNCHANGED <<b1Pin, flash, appStack, appReset, nvicI, bootTx>>

\* SysTick->CTRL = 0U; SysTick->LOAD = 0U; SysTick->VAL = 0U;
JTA_SysTick ==
    /\ bootPc = "systick"
    /\ bootHw' = [bootHw EXCEPT !.systick = FALSE]
    /\ bootTrace' = Append(bootTrace, "systick")
    /\ nvicI' = 0
    /\ bootPc' = "nvic"
    /\ UNCHANGED <<b1Pin, flash, appStack, appReset, bootTx>>

\* for (i = 0; i < 8; ++i) { NVIC->ICER[i] = ~0; NVIC->ICPR[i] = ~0; }
JTA_Nvic ==
    /\ bootPc = "nvic"
    /\ IF nvicI < NVIC_BANKS
       THEN /\ bootHw' = [bootHw EXCEPT !.iser = @ \ {nvicI}, !.ispr = @ \ {nvicI}]
            /\ bootTrace' = Append(bootTrace, "nvic")
            /\ nvicI' = nvicI + 1
            /\ UNCHANGED bootPc
       ELSE /\ bootPc' = "vtor"
            /\ UNCHANGED <<bootHw, bootTrace, nvicI>>
    /\ UNCHANGED <<b1Pin, flash, appStack, appReset, bootTx>>

\* SCB->VTOR = APP_START_ADDR;
JTA_Vtor ==
    /\ bootPc = "vtor"
    /\ bootHw' = [bootHw EXCEPT !.vtor = APP_START_ADDR]
    /\ bootTrace' = Append(bootTrace, "vtor")
    /\ bootPc' = "msp"
    /\ UNCHANGED <<b1Pin, flash, appStack, appReset, nvicI, bootTx>>

\* __set_MSP(appStack);
JTA_Msp ==
    /\ bootPc = "msp"
    /\ bootHw' = [bootHw EXCEPT !.msp = appStack]
    /\ bootTrace' = Append(bootTrace, "msp")
    /\ bootPc' = "call"
    /\ UNCHANGED <<b1Pin, flash, appStack, appReset, nvicI, bootTx>>

\* appEntry(): control is with the application from here on
JTA_Call ==
    /\ bootPc = "call"
    /\ bootTrace' = Append(bootTrace, "call")
    /\ bootPc' = "app"
    /\ UNCHANGED <<b1Pin, flash, appStack, appReset, bootHw, nvicI, bootTx>>

\* main, after JumpToApplication returned
Boot_NoApp ==
    /\ bootPc = "no_app"
    /\ bootTx' = Boot_Print(bootTx, "[BOOT] No valid application found. Staying in error loop.")
    /\ bootPc' = "error_loop"
    /\ UNCHANGED <<b1Pin, flash, appStack, appReset, bootHw, nvicI, bootTrace>>

\* main: while (1) { HAL_GPIO_TogglePin(LD2); HAL_Delay(500); }
Boot_ErrorLoop ==
    /\ bootPc = "error_loop"
    /\ bootHw' = [bootHw EXCEPT !.led = 1 - bootHw.led]
    /\ UNCHANGED <<bootPc, b1Pin, flash, appStack, appReset, nvicI, bootTrace, bootTx>>

\* the steps of JumpToApplication from the first de-initialization to the call
JumpSteps ==
    <<"rcc_deinit", "hal_deinit", "systick">> \o [i \in 1..NVIC_BANKS |-> "nvic"]
        \o <<"vtor", "msp", "call">>

\* a linked application image: stack top of the 128 KB SRAM, reset handler
\* in the application's flash
APP_IMAGE == [stack |-> U32(8194, 0), reset |-> U32(2048, 33225)]

\* the bootloader has handed over to the application
Boot_Jumped ==
    /\ bootPc = "app"
    /\ b1Pin = 0
    /\ flash = APP_IMAGE
    /\ appStack = APP_IMAGE.stack
    /\ appReset = APP_IMAGE.reset
    /\ bootHw = [hal |-> FALSE, rcc |-> FALSE, systick |-> FALSE, iser |-> {},
                 ispr |-> {}, vtor |-> APP_START_ADDR, msp |-> APP_IMAGE.stack, led |-> 0]
    /\ nvicI = NVIC_BANKS
    /\ bootTrace = JumpSteps
    /\ bootTx = <<"[BOOT] Mini ECU v2 bootloader",
                  "[BOOT] Hold B1 during reset to stay in bootloader.",
                  "[BOOT] B1 not pressed: attempting to jump to application...">>

\* the bootloader runs without interruption
BootRun ==
    /\ \/ Boot_Main \/ Boot_Decide \/ Boot_StayLoop \/ JTA_Read \/ JTA_Check
       \/ JTA_RccDeInit \/ JTA_HalDeInit \/ JTA_SysTick \/ JTA_Nvic \/ JTA_Vtor
       \/ JTA_Msp \/ JTA_Call \/ Boot_NoApp \/ Boot_ErrorLoop
    /\ UNCHANGED <<vehVars, vehCtl, isrVars, popVars, lineVars, cfgVars, pollVars, canVars>>

---------------------------------------------------------------------------
(* C strings: a string is a tuple of character codes *)

\* "h"
STR_h ==
    <<104>>

\* "help"
STR_help ==
    <<104, 101, 108, 112>>

\* "veh speed "
STR_veh_speed_ ==
    <<118, 101, 104, 32, 115, 112, 101, 101, 100, 32>>

\* "veh cool-hot"
STR_veh_cool_hot ==
    <<118, 101, 104, 32, 99, 111, 111, 108, 45, 104, 111, 116>>

\* "log on"
STR_log_on ==
    <<108, 111, 103, 32, 111, 110>>

\* the table entry misspelt: "log of"
STR_log_off_Misspelt ==
    <<108, 111, 103, 32, 111, 102>>

\* "log off"
STR_log_off ==
    <<108, 111, 103, 32, 111, 102, 102>>

\* "nan"
STR_nan ==
    <<110, 97, 110>>

\* "inf"
STR_inf ==
    <<105, 110, 102>>

\* "\r\n> "
TX_PROMPT ==
    <<13, 10, 62, 32>>

\* "\r\nCommands:\r\n  help          - show this help\r\n  veh speed X   - set target speed to X km/h\r\n  veh cool-hot  - inject coolant overheat\r\n  log on        - enable CAN RX logging\r\n  log off       - disable CAN RX logging\r\n> "
TX_HELP ==
    <<13, 10, 67, 111, 109, 109, 97, 110, 100, 115, 58, 13, 10, 32, 32,
    104, 101, 108, 112, 32, 32, 32, 32, 32, 32, 32, 32, 32, 32, 45, 32,
    115, 104, 111, 119, 32, 116, 104, 105, 115, 32, 104, 101, 108, 112,
    13, 10, 32, 32, 118, 101, 104, 32, 115, 112, 101, 101, 100, 32, 88,
    32, 32, 32, 45, 32, 115, 101, 116, 32, 116, 97, 114, 103, 101, 116,
    32, 115, 112, 101, 101, 100, 32, 116, 111, 32, 88, 32, 107, 109, 47,
    104, 13, 10, 32, 32, 118, 101, 104, 32, 99, 111, 111, 108, 45, 104,
    111, 116, 32, 32, 45, 32, 105, 110, 106, 101, 99, 116, 32, 99, 111,
    111, 108, 97, 110, 116, 32, 111, 118, 101, 114, 104, 101, 97, 116, 13,
    10, 32, 32, 108, 111, 103, 32, 111, 110, 32, 32, 32, 32, 32, 32, 32,
    32, 45, 32, 101, 110, 97, 98, 108, 101, 32, 67, 65, 78, 32, 82, 88,
    32, 108, 111, 103, 103, 105, 110, 103, 13, 10, 32, 32, 108, 111, 103,
    32, 111, 102, 102, 32, 32, 32, 32, 32, 32, 32, 45, 32, 100, 105, 115,
    97, 98, 108, 101, 32, 67, 65, 78, 32, 82, 88, 32, 108, 111, 103, 103,
    105, 110, 103, 13, 10, 62, 32>>

\* "\r\nOK: speed updated\r\n> "
TX_SPEED_OK ==
    <<13, 10, 79, 75, 58, 32, 115, 112, 101, 101, 100, 32, 117, 112, 100,
    97, 116, 101, 100, 13, 10, 62, 32>>

\* "\r\nNo vehicle bound to CLI.\r\n> "
\* "\r\nNo vehicle bound to CLI.\r\n": the reply without the prompt
TX_NO_VEHICLE_NoPrompt ==
    <<13, 10, 78, 111, 32, 118, 101, 104, 105, 99, 108, 101, 32, 98, 111,
    117, 110, 100, 32, 116, 111, 32, 67, 76, 73, 46, 13, 10>>

TX_NO_VEHICLE ==
    <<13, 10, 78, 111, 32, 118, 101, 104, 105, 99, 108, 101, 32, 98, 111,
    117, 110, 100, 32, 116, 111, 32, 67, 76, 73, 46, 13, 10, 62, 32>>

\* "\r\nInjected: coolant overheat\r\n> "
TX_OVERHEAT ==
    <<13, 10, 73, 110, 106, 101, 99, 116, 101, 100, 58, 32, 99, 111, 111,
    108, 97, 110, 116, 32, 111, 118, 101, 114, 104, 101, 97, 116, 13, 10,
    62, 32>>

\* "\r\nCAN RX logging: ON\r\n> "
TX_LOG_ON ==
    <<13, 10, 67, 65, 78, 32, 82, 88, 32, 108, 111, 103, 103, 105, 110,
    103, 58, 32, 79, 78, 13, 10, 62, 32>>

\* "\r\nCAN RX logging: OFF\r\n> "
TX_LOG_OFF ==
    <<13, 10, 67, 65, 78, 32, 82, 88, 32, 108, 111, 103, 103, 105, 110,
    103, 58, 32, 79, 70, 70, 13, 10, 62, 32>>

\* "\r\nUnknown command. Try 'help'.\r\n> "
TX_UNKNOWN ==
    <<13, 10, 85, 110, 107, 110, 111, 119, 110, 32, 99, 111, 109, 109, 97,
    110, 100, 46, 32, 84, 114, 121, 32, 39, 104, 101, 108, 112, 39, 46,
    13, 10, 62, 32>>

CR == 13
LF == 10

Min(a, b) == IF a < b THEN a ELSE b

Take(s, n) == SubSeq(s, 1, Min(n, Len(s)))

\* the C string that starts at l[i]: the characters before the first NUL
RECURSIVE CStrFrom(_, _)
CStrFrom(l, i) ==
    IF i \notin DOMAIN l \/ l[i] = 0 THEN <<>>
    ELSE <<l[i]>> \o CStrFrom(l, i + 1)

\* strcmp(l, lit) == 0
strcmp0(l, lit) == CStrFrom(l, 0) = lit

\* strncmp(l, lit, n) == 0
strncmp0(l, lit, n) == Take(CStrFrom(l, 0), n) = Take(lit, n)

IsSpace(ch) == ch = 32 \/ (ch >= 9 /\ ch <= 13)
IsDigit(ch) == ch >= 48 /\ ch <= 57
ToLower(ch) == IF ch >= 65 /\ ch <= 90 THEN ch + 32 ELSE ch

RECURSIVE SkipSpace(_, _)
SkipSpace(s, i) == IF i <= Len(s) /\ IsSpace(s[i]) THEN SkipSpace(s, i + 1) ELSE i

RECURSIVE DigitsEnd(_, _)
DigitsEnd(s, i) == IF i <= Len(s) /\ IsDigit(s[i]) THEN DigitsEnd(s, i + 1) ELSE i

\* the number written by the digits s[i..j-1], saturating at cap
RECURSIVE DigitsVal(_, _, _, _, _)
DigitsVal(s, i, j, acc, cap) ==
    IF i >= j THEN acc
    ELSE DigitsVal(s, i + 1, j, Min(acc * 10 + (s[i] - 48), cap), cap)

\* m * 10^e for e >= 0, saturating at Huge
RECURSIVE MulPow10(_, _)
MulPow10(m, e) == IF e = 0 \/ m = 0 \/ m >= Huge THEN Min(m, Huge) ELSE MulPow10(m * 10, e - 1)

\* m / 10^e for e >= 0
RECURSIVE DivPow10(_, _)
DivPow10(m, e) == IF e = 0 \/ m = 0 THEN m ELSE DivPow10(m \div 10, e - 1)

\* (float)atof(s): optional white space, optional sign, then "nan", "inf" or
\* decimal digits with an optional fraction and an optional exponent; text
\* with no number in it gives 0.  An infinite or out-of-range result is the
\* extreme finite value Huge (it compares like one); hexadecimal floats are
\* not modelled.
atof(s) ==
    LET i0 == SkipSpace(s, 1)
        neg == i0 <= Len(s) /\ s[i0] = 45
        i1 == IF i0 <= Len(s) /\ s[i0] \in {43, 45} THEN i0 + 1 ELSE i0
        word == [k \in 1..Len(SubSeq(s, i1, Min(i1 + 2, Len(s)))) |-> ToLower(s[i1 + k - 1])]
        i2 == DigitsEnd(s, i1)
        hasDot == i2 <= Len(s) /\ s[i2] = 46
        f0 == IF hasDot THEN i2 + 1 ELSE i2
        f1 == IF hasDot THEN DigitsEnd(s, f0) ELSE i2
        units == DigitsVal(s, i1, i2, 0, 1000000)
        frac == DigitsVal(s, f0, Min(f1, f0 + 2), 0, 99) * (IF f1 - f0 = 1 THEN 10 ELSE 1)
        mant == Min(units * Scale + frac, Huge)
        hasE == f1 <= Len(s) /\ s[f1] \in {101, 69}
        e0 == IF hasE /\ f1 + 1 <= Len(s) /\ s[f1 + 1] \in {43, 45} THEN f1 + 2 ELSE f1 + 1
        e1 == IF hasE THEN DigitsEnd(s, e0) ELSE e0
        hasExp == hasE /\ e1 > e0
        eNeg == hasExp /\ s[e0 - 1] = 45
        eVal == IF hasExp THEN DigitsVal(s, e0, e1, 0, 12) ELSE 0
        mag == IF eNeg THEN DivPow10(mant, eVal) ELSE MulPow10(mant, eVal)
    IN  IF word = STR_nan THEN NaN
        ELSE IF word = STR_inf THEN (IF neg THEN -Huge ELSE Huge)
        ELSE IF (i2 - i1) + (f1 - f0) = 0 THEN 0
        ELSE IF neg THEN -mag ELSE mag

---------------------------------------------------------------------------
(* log.c and the bus-receive logging flag *)

LOG_LEVEL_ERROR == 0
LOG_LEVEL_WARN == 1
LOG_LEVEL_INFO == 2
LOG_LEVEL_DEBUG == 3

\* sizeof(msgBuf) and sizeof(outBuf) in Log_Write
MSG_BUF_SIZE == 128
OUT_BUF_SIZE == 160

\* a NULL module pointer (a value no tag equals)
NULL_TAG == <<-1>>

\* "GEN"
TAG_GEN ==
    <<71, 69, 78>>

\* "CLI"
TAG_CLI ==
    <<67, 76, 73>>

\* "Command: '"
MSG_COMMAND_ ==
    <<67, 111, 109, 109, 97, 110, 100, 58, 32, 39>>

\* "Set target speed to "
MSG_SET_SPEED_ ==
    <<83, 101, 116, 32, 116, 97, 114, 103, 101, 116, 32, 115, 112, 101,
    101, 100, 32, 116, 111, 32>>

\* " km/h"
MSG_KMH ==
    <<32, 107, 109, 47, 104>>

\* "Injected coolant overheat"
MSG_OVERHEAT ==
    <<73, 110, 106, 101, 99, 116, 101, 100, 32, 99, 111, 111, 108, 97,
    110, 116, 32, 111, 118, 101, 114, 104, 101, 97, 116>>

\* "CAN RX logging enabled"
MSG_CAN_LOG_ON ==
    <<67, 65, 78, 32, 82, 88, 32, 108, 111, 103, 103, 105, 110, 103, 32,
    101, 110, 97, 98, 108, 101, 100>>

\* "CAN RX logging disabled"
MSG_CAN_LOG_OFF ==
    <<67, 65, 78, 32, 82, 88, 32, 108, 111, 103, 103, 105, 110, 103, 32,
    100, 105, 115, 97, 98, 108, 101, 100>>

\* the decimal digits of the natural number n
RECURSIVE Dec(_)
Dec(n) == IF n < 10 THEN <<48 + n>> ELSE Dec(n \div 10) \o <<48 + (n % 10)>>

\* printf's "%.1f": one decimal, rounded to nearest.  A magnitude the model
\* saturates at Huge is written as "inf".
FmtF1(v) ==
    IF IsNaN(v) THEN STR_nan
    ELSE IF v >= Huge THEN STR_inf
    ELSE IF v <= -Huge THEN <<45>> \o STR_inf
    ELSE LET a == IF v < 0 THEN -v ELSE v
             t == (a + 5) \div 10
         IN  (IF v < 0 THEN <<45>> ELSE <<>>) \o Dec(t \div 10) \o <<46, 48 + (t % 10)>>

\* the levelChar switch: 'E', 'W', 'I', 'D', default '?'
LevelChar_NoWarnCase(level) ==
    IF level = LOG_LEVEL_ERROR THEN 69
    ELSE IF level = LOG_LEVEL_INFO THEN 73
    ELSE IF level = LOG_LEVEL_DEBUG THEN 68
    ELSE 63

LevelChar(level) ==
    IF level = LOG_LEVEL_ERROR THEN 69
    ELSE IF level = LOG_LEVEL_WARN THEN 87
    ELSE IF level = LOG_LEVEL_INFO THEN 73
    ELSE IF level = LOG_LEVEL_DEBUG THEN 68
    ELSE 63

\* the bytes one Log_Write call hands to HAL_UART_Transmit.  msg is the text
\* the format and its arguments expand to: vsnprintf keeps its first 127
\* characters in msgBuf; snprintf builds "[%c][%s] %s\r\n" in outBuf, keeping
\* 159 characters and a NUL when the line is longer; len is the untruncated
\* length, capped at sizeof(outBuf).
Log_Line(level, module, msg) ==
    LET msgBuf == Take(msg, MSG_BUF_SIZE - 1)
        tag == IF module = NULL_TAG THEN TAG_GEN ELSE module
        full == <<91, LevelChar(level), 93, 91>> \o tag \o <<93, 32>> \o msgBuf
                    \o <<13, 10>>
        n == Len(full)
        outBuf == IF n >= OUT_BUF_SIZE THEN Take(full, OUT_BUF_SIZE - 1) \o <<0>>
                  ELSE full \o <<0>>
        len == IF n > OUT_BUF_SIZE THEN OUT_BUF_SIZE ELSE n
    IN  Take(outBuf, len)

\* Log_Write dropping a record whose level equals the configured one
Log_Write_DropsAtLevel(out, level, module, msg) ==
    IF level >= s_logLevel \/ ~s_logUart THEN out
    ELSE Append(out, Log_Line(level, module, msg))

\* Log_Write: the record is dropped when its level is above the configured
\* one or no sink is set; otherwise one line is transmitted.  out collects
\* the lines of the calls made so far.
Log_Write(out, level, module, msg) ==
    IF level > s_logLevel \/ ~s_logUart THEN out
    ELSE Append(out, Log_Line(level, module, msg))

\* log.c's statics at program start (sink = FALSE), or once the
\* application has called Log_Init with its UART (sink = TRUE)
Log_Boot(sink) ==
    /\ s_logLevel = LOG_LEVEL_INFO
    /\ s_logUart = sink
    /\ logCall = [level |-> LOG_LEVEL_INFO, module |-> NULL_TAG, msg |-> <<>>]

\* the bus-receive logging flag starts enabled
CAN_IF_Boot == s_canLogging = TRUE

\* a frame slot that holds no frame yet
NO_FRAME == [StdId |-> 0, ExtId |-> 0, IDE |-> 0, RTR |-> 0, DLC |-> 0, Data |-> <<>>]

\* CAN_IF_Init: the receive queue is created empty and reception is enabled.
\* frames are the environment's: what the bus will deliver.
CAN_IF_Init(frames) ==
    /\ canTx = NO_FRAME
    /\ canWire = frames
    /\ canQueue = <<>>
    /\ canMsg = NO_FRAME
    /\ canTaskPc = "get"
    /\ canAccepted = <<>>
    /\ canProcessed = <<>>
    /\ canDropped = 0

\* CAN_IF_SetLogging(enable)
CAN_IF_SetLogging(enable) == s_canLogging' = (enable # 0)

\* the telemetry frame's identifier (StdId = 0x100) and length (DLC = 6)
TELEMETRY_ID == 256
TELEMETRY_DLC == 6

\* a float scaled by 10 and rounded to the nearest integer, halves away from
\* zero
RoundTimes10(a) == IF a >= 0 THEN (a + 5) \div 10 ELSE -((5 - a) \div 10)

\* float -> 16-bit field after scaling and rounding.  A value the field
\* cannot hold (or NaN) is undefined in C: it saturates or keeps its low
\* 16 bits.  lo..hi is the field's range; the result is the field's bits.
ScaledField(a, lo, hi) ==
    IF IsNaN(a) THEN {0}
    ELSE LET t == RoundTimes10(a)
         IN  IF t >= lo /\ t <= hi THEN {t % 65536}
             ELSE IF t < lo THEN {lo % 65536, t % 65536}
             ELSE {hi % 65536, t % 65536}

\* a 16-bit field as two bytes, high byte first
BE16(w) == <<w \div 256, w % 256>>

\* a 16-bit field as two bytes, low byte first
LE16(w) == <<w % 256, w \div 256>>

\* CAN_IF_SendTelemetry(vs): speed x 10 as uint16, rpm as uint16,
\* temperature x 10 as int16, each little-endian
CAN_IF_SendTelemetry ==
    \E sp \in ScaledField(speed_kph, 0, 65535),
       tp \in ScaledField(coolant_temp_c, -32768, 32767) :
        canTx' = [StdId |-> TELEMETRY_ID, ExtId |-> 0, IDE |-> 0, RTR |-> 0,
                  DLC |-> TELEMETRY_DLC,
                  Data |-> LE16(sp) \o LE16(engine_rpm) \o LE16(tp)]

\* "CAN"
TAG_CAN ==
    <<67, 65, 78>>

\* the text of the line for one received frame: identifier, type, length and
\* payload bytes, here in decimal with blanks between (the layout is not
\* given; only that there is one line per frame)
RECURSIVE CanBytesText(_)
CanBytesText(data) ==
    IF data = <<>> THEN <<>>
    ELSE <<32>> \o Dec(Head(data)) \o CanBytesText(Tail(data))

CanFrameText(msg) ==
    Dec(IF msg.IDE = 0 THEN msg.StdId ELSE msg.ExtId) \o <<32>> \o Dec(msg.IDE)
        \o <<32>> \o Dec(msg.DLC) \o CanBytesText(msg.Data)

\* CAN_IF_ProcessRxMsg(msg): one log line for the frame while logging is
\* enabled, nothing otherwise
CAN_IF_ProcessRxMsg(msg) ==
    logTx' = IF s_canLogging
             THEN Log_Write(<<>>, LOG_LEVEL_INFO, TAG_CAN, CanFrameText(msg))
             ELSE <<>>

---------------------------------------------------------------------------
(* cli_if.c: ring buffer and receive interrupt *)

CLI_RX_BUF_SIZE == 64
LINE_SIZE == 32
DASH_PERIOD == 50
OVERHEAT_C == 115

\* bytes in the ring buffer, oldest first, as the indices say
Stored == (s_cliHead - s_cliTail) % CLI_RX_BUF_SIZE

\* cli_push with the store made after the index moved: the byte lands in
\* the slot at the new head
cli_push_StoreAtNext(ch) ==
    LET next == ((s_cliHead + 1) % CLI_RX_BUF_SIZE) % 256
    IN  IF next # s_cliTail
        THEN /\ s_cliBuf' = [s_cliBuf EXCEPT ![next] = ch]
             /\ s_cliHead' = next
             /\ accepted' = Append(accepted, ch)
             /\ UNCHANGED <<s_cliTail, nDropped>>
        ELSE /\ nDropped' = nDropped + 1
             /\ UNCHANGED <<s_cliBuf, s_cliHead, s_cliTail, accepted>>

\* cli_push without the full test: it stores and advances head always
cli_push_Overwrite(ch) ==
    /\ s_cliBuf' = [s_cliBuf EXCEPT ![s_cliHead] = ch]
    /\ s_cliHead' = ((s_cliHead + 1) % CLI_RX_BUF_SIZE) % 256
    /\ accepted' = Append(accepted, ch)
    /\ UNCHANGED <<s_cliTail, nDropped>>

\* cli_push that makes room when full by advancing tail over the oldest byte
cli_push_OverwriteOldest(ch) ==
    LET next == ((s_cliHead + 1) % CLI_RX_BUF_SIZE) % 256
    IN  /\ s_cliBuf' = [s_cliBuf EXCEPT ![s_cliHead] = ch]
        /\ s_cliHead' = next
        /\ accepted' = Append(accepted, ch)
        /\ s_cliTail' = IF next # s_cliTail THEN s_cliTail
                        ELSE ((s_cliTail + 1) % CLI_RX_BUF_SIZE) % 256
        /\ UNCHANGED nDropped

\* cli_push(ch): store at head and advance, or drop when advancing head
\* would make it equal to tail
cli_push(ch) ==
    LET next == ((s_cliHead + 1) % CLI_RX_BUF_SIZE) % 256
    IN  IF next # s_cliTail
        THEN /\ s_cliBuf' = [s_cliBuf EXCEPT ![s_cliHead] = ch]
             /\ s_cliHead' = next
             /\ accepted' = Append(accepted, ch)
             /\ UNCHANGED <<s_cliTail, nDropped>>
        ELSE /\ nDropped' = nDropped + 1
             /\ UNCHANGED <<s_cliBuf, s_cliHead, s_cliTail, accepted>>

\* HAL_UART_Receive_IT(s_cliUart, &s_rxByte, 1)
HAL_UART_Receive_IT == rxArmed' = TRUE

\* The UART completes the armed one-byte reception: the byte is in s_rxByte,
\* reception is no longer armed, and HAL_UART_RxCpltCallback is entered with
\* the CLI UART's handle.  The interrupt runs to completion: no task step is
\* taken until it has returned.
Isr_Enter ==
    /\ isrPc = "idle"
    /\ rxArmed
    /\ typed # <<>>
    /\ s_rxByte' = Head(typed)
    /\ typed' = Tail(typed)
    /\ rxArmed' = FALSE
    /\ isrPc' = "push"
    /\ UNCHANGED <<s_cliBuf, s_cliHead, accepted, nDropped>>
    /\ UNCHANGED <<popVars, lineVars, cfgVars, pollVars, vehVars, vehCtl, canVars, bootVars>>

\* cli_push(s_rxByte);
Isr_Push ==
    /\ isrPc = "push"
    /\ cli_push(s_rxByte)
    /\ isrPc' = "rearm"
    /\ UNCHANGED <<s_rxByte, rxArmed, typed>>
    /\ arrivedInPoll' = (taskPc # "idle")
    /\ UNCHANGED <<rh, c, popRet, popped>>
    /\ UNCHANGED <<taskPc, dashCounter, pollsLeft, nDraws>>
    /\ UNCHANGED <<lineVars, cfgVars, vehVars, vehCtl, canVars, bootVars>>

\* the handler re-arming reception only after a byte it could store
Isr_Rearm_OnlyIfStored ==
    /\ isrPc = "rearm"
    /\ rxArmed' = (accepted # <<>> /\ accepted[Len(accepted)] = s_rxByte)
    /\ isrPc' = "idle"
    /\ UNCHANGED <<s_cliBuf, s_cliHead, s_rxByte, typed, accepted, nDropped>>
    /\ UNCHANGED <<popVars, lineVars, cfgVars, pollVars, vehVars, vehCtl, canVars, bootVars>>

\* (void)HAL_UART_Receive_IT(s_cliUart, &s_rxByte, 1U); and return
Isr_Rearm ==
    /\ isrPc = "rearm"
    /\ HAL_UART_Receive_IT
    /\ isrPc' = "idle"
    /\ UNCHANGED <<s_cliBuf, s_cliHead, s_rxByte, typed, accepted, nDropped>>
    /\ UNCHANGED <<popVars, lineVars, cfgVars, pollVars, vehVars, vehCtl, canVars, bootVars>>

---------------------------------------------------------------------------
(* cli_if.c: cli_pop, one shared-memory access per step *)

\* CLI_IF_Task is called: the while loop calls cli_pop
Task_Poll ==
    /\ isrPc = "idle"
    /\ taskPc = "idle"
    /\ pollsLeft > 0
    /\ pollsLeft' = pollsLeft - 1
    /\ arrivedInPoll' = FALSE
    /\ taskPc' = "popHead"
    /\ UNCHANGED <<dashCounter, nDraws>>
    /\ UNCHANGED <<isrVars, popVars, lineVars, cfgVars, vehVars, vehCtl, canVars, bootVars>>

\* cli_pop reads s_cliHead
Pop_ReadHead ==
    /\ isrPc = "idle"
    /\ taskPc = "popHead"
    /\ rh' = s_cliHead
    /\ taskPc' = "popCmp"
    /\ UNCHANGED <<s_cliTail, c, popRet, popped>>
    /\ UNCHANGED <<dashCounter, pollsLeft, nDraws, arrivedInPoll>>
    /\ UNCHANGED <<isrVars, lineVars, cfgVars, vehVars, vehCtl, canVars, bootVars>>

\* cli_pop without the empty test: it always goes on to load
Pop_Compare_NoEmptyCheck ==
    /\ isrPc = "idle"
    /\ taskPc = "popCmp"
    /\ taskPc' = "popLoad"
    /\ rh' = 0
    /\ UNCHANGED <<s_cliTail, c, popRet, popped>>
    /\ UNCHANGED <<dashCounter, pollsLeft, nDraws, arrivedInPoll>>
    /\ UNCHANGED <<isrVars, lineVars, cfgVars, vehVars, vehCtl, canVars, bootVars>>

\* if (s_cliHead == s_cliTail) return 0;
Pop_Compare ==
    /\ isrPc = "idle"
    /\ taskPc = "popCmp"
    /\ IF rh = s_cliTail
       THEN popRet' = 0 /\ taskPc' = "dash"
       ELSE popRet' = popRet /\ taskPc' = "popLoad"
    /\ rh' = 0
    /\ UNCHANGED <<s_cliTail, c, popped>>
    /\ UNCHANGED <<dashCounter, pollsLeft, nDraws, arrivedInPoll>>
    /\ UNCHANGED <<isrVars, lineVars, cfgVars, vehVars, vehCtl, canVars, bootVars>>

\* *c = s_cliBuf[s_cliTail];
Pop_Load ==
    /\ isrPc = "idle"
    /\ taskPc = "popLoad"
    /\ c' = s_cliBuf[s_cliTail]
    /\ taskPc' = "popAdv"
    /\ UNCHANGED <<s_cliTail, rh, popRet, popped>>
    /\ UNCHANGED <<dashCounter, pollsLeft, nDraws, arrivedInPoll>>
    /\ UNCHANGED <<isrVars, lineVars, cfgVars, vehVars, vehCtl, canVars, bootVars>>

\* s_cliTail = (uint8_t)((s_cliTail + 1U) % CLI_RX_BUF_SIZE); return 1;
Pop_Advance ==
    /\ isrPc = "idle"
    /\ taskPc = "popAdv"
    /\ s_cliTail' = ((s_cliTail + 1) % CLI_RX_BUF_SIZE) % 256
    /\ popRet' = 1
    /\ popped' = Append(popped, c)
    /\ taskPc' = "handle"
    /\ UNCHANGED <<rh, c>>
    /\ UNCHANGED <<dashCounter, pollsLeft, nDraws, arrivedInPoll>>
    /\ UNCHANGED <<isrVars, lineVars, cfgVars, vehVars, vehCtl, canVars, bootVars>>

---------------------------------------------------------------------------
(* cli_if.c: cli_handle_char *)

\* what one cli_handle_char call did and sent
Report(kind, branch, cmd, acc, tx, lg) ==
    /\ handled' = [kind |-> kind, branch |-> branch, cmd |-> cmd, acc |-> acc, ch |-> c]
    /\ uartTx' = tx
    /\ logTx' = lg

\* the bytes in the accumulator, line[0 .. idx-1]
Accumulated == [k \in 1..idx |-> line[k - 1]]

\* the command table, applied to the NUL-terminated line l
cli_dispatch(l) ==
    LET cmd == CStrFrom(l, 0)
        acc == Accumulated
        dbg == Log_Write(<<>>, LOG_LEVEL_DEBUG, TAG_CLI, MSG_COMMAND_ \o cmd \o <<39>>)
    IN  IF strcmp0(l, STR_h) \/ strcmp0(l, STR_help) THEN
            /\ Report("dispatch", "help", cmd, acc, TX_HELP, dbg)
            /\ UNCHANGED <<vehVars, s_canLogging>>
        ELSE IF strncmp0(l, STR_veh_speed_, 10) THEN
            IF s_vehicle
            THEN /\ Vehicle_SetTargetSpeed(atof(CStrFrom(l, 10)))
                 /\ Report("dispatch", "speed", cmd, acc, TX_SPEED_OK,
                           Log_Write(dbg, LOG_LEVEL_INFO, TAG_CLI,
                                     MSG_SET_SPEED_ \o FmtF1(atof(CStrFrom(l, 10)))
                                         \o MSG_KMH))
                 /\ UNCHANGED s_canLogging
            ELSE /\ Report("dispatch", "noVehicle", cmd, acc, TX_NO_VEHICLE, dbg)
                 /\ UNCHANGED <<vehVars, s_canLogging>>
        ELSE IF strcmp0(l, STR_veh_cool_hot) THEN
            IF s_vehicle
            THEN /\ Vehicle_Force(speed_kph, engine_rpm, OVERHEAT_C * Scale)
                 /\ Report("dispatch", "coolHot", cmd, acc, TX_OVERHEAT,
                           Log_Write(dbg, LOG_LEVEL_WARN, TAG_CLI, MSG_OVERHEAT))
                 /\ UNCHANGED s_canLogging
            ELSE /\ Report("dispatch", "noVehicle", cmd, acc, TX_NO_VEHICLE, dbg)
                 /\ UNCHANGED <<vehVars, s_canLogging>>
        ELSE IF strcmp0(l, STR_log_on) THEN
            /\ CAN_IF_SetLogging(1)
            /\ Report("dispatch", "logOn", cmd, acc, TX_LOG_ON,
                      Log_Write(dbg, LOG_LEVEL_INFO, TAG_CLI, MSG_CAN_LOG_ON))
            /\ UNCHANGED vehVars
        ELSE IF strcmp0(l, STR_log_off) THEN
            /\ CAN_IF_SetLogging(0)
            /\ Report("dispatch", "logOff", cmd, acc, TX_LOG_OFF,
                      Log_Write(dbg, LOG_LEVEL_INFO, TAG_CLI, MSG_CAN_LOG_OFF))
            /\ UNCHANGED vehVars
        ELSE
            /\ Report("dispatch", "unknown", cmd, acc, TX_UNKNOWN, dbg)
            /\ UNCHANGED <<vehVars, s_canLogging>>

\* the capacity test letting the cursor reach sizeof(line)
HasRoom_UpToSize == idx < LINE_SIZE

\* the accumulator has room: idx < sizeof(line) - 1
HasRoom == idx < LINE_SIZE - 1

\* the echo moved out of the capacity test: every normal character is echoed
cli_echo_Always(ch) == <<ch>>

\* the bytes sent when a normal character is handled: the echo
cli_echo(ch) == IF HasRoom THEN <<ch>> ELSE <<>>

cli_handle_char(ch) ==
    IF ch = CR \/ ch = LF THEN
        IF idx = 0
        THEN /\ Report("prompt", "none", <<>>, <<>>, TX_PROMPT, <<>>)
             /\ UNCHANGED <<line, idx, vehVars, s_canLogging>>
        ELSE /\ line' = [line EXCEPT ![idx] = 0]
             /\ idx' = 0
             /\ cli_dispatch([line EXCEPT ![idx] = 0])
    ELSE
        /\ IF HasRoom
           THEN /\ line' = [line EXCEPT ![idx] = ch]
                /\ idx' = (idx + 1) % 256
           ELSE UNCHANGED <<line, idx>>
        /\ Report(IF HasRoom THEN "append" ELSE "discard", "none", <<>>, <<>>,
                  cli_echo(ch), <<>>)
        /\ UNCHANGED <<vehVars, s_canLogging>>

\* the drain loop written as an if: one byte handled, then on to the dashboard
Task_Handle_OneBytePerPoll ==
    /\ isrPc = "idle"
    /\ taskPc = "handle"
    /\ cli_handle_char(c)
    /\ parsed' = Append(parsed, c)
    /\ taskPc' = "dash"
    /\ UNCHANGED <<dashCounter, pollsLeft, nDraws, arrivedInPoll>>
    /\ UNCHANGED <<s_vehicle, s_logLevel, s_logUart, logCall>>
    /\ UNCHANGED <<isrVars, popVars, vehCtl, canVars, bootVars>>

\* cli_handle_char(c); inside CLI_IF_Task's while loop
Task_Handle ==
    /\ isrPc = "idle"
    /\ taskPc = "handle"
    /\ cli_handle_char(c)
    /\ parsed' = Append(parsed, c)
    /\ taskPc' = "popHead"
    /\ UNCHANGED <<dashCounter, pollsLeft, nDraws, arrivedInPoll>>
    /\ UNCHANGED <<s_vehicle, s_logLevel, s_logUart, logCall>>
    /\ UNCHANGED <<isrVars, popVars, vehCtl, canVars, bootVars>>

\* cli_update_dashboard: renders one line unless no vehicle is bound
cli_update_dashboard == nDraws' = IF s_vehicle THEN nDraws + 1 ELSE nDraws

\* the dashboard test written with > instead of >=
Task_Dash_GreaterThan ==
    /\ isrPc = "idle"
    /\ taskPc = "dash"
    /\ IF dashCounter + 1 > DASH_PERIOD
       THEN dashCounter' = 0 /\ cli_update_dashboard
       ELSE dashCounter' = dashCounter + 1 /\ UNCHANGED nDraws
    /\ taskPc' = "idle"
    /\ arrivedInPoll' = FALSE
    /\ UNCHANGED pollsLeft
    /\ UNCHANGED <<isrVars, popVars, lineVars, cfgVars, vehVars, vehCtl, canVars, bootVars>>

\* dashCounter++; if (dashCounter >= 50U) { dashCounter = 0U; render }
Task_Dash ==
    /\ isrPc = "idle"
    /\ taskPc = "dash"
    /\ IF dashCounter + 1 >= DASH_PERIOD
       THEN dashCounter' = 0 /\ cli_update_dashboard
       ELSE dashCounter' = dashCounter + 1 /\ UNCHANGED nDraws
    /\ taskPc' = "idle"
    /\ arrivedInPoll' = FALSE
    /\ UNCHANGED pollsLeft
    /\ UNCHANGED <<isrVars, popVars, lineVars, cfgVars, vehVars, vehCtl, canVars, bootVars>>

\* CLI_IF_Init(huart, vehicle) with a UART: indices reset, reception armed,
\* the dashboard drawn once.  keys and polls are the environment's.
CLI_IF_Init(keys, vehicle, polls) ==
    /\ s_cliBuf = [i \in 0..(CLI_RX_BUF_SIZE - 1) |-> 0]
    /\ s_cliHead = 0
    /\ s_cliTail = 0
    /\ s_rxByte = 0
    /\ rxArmed = TRUE
    /\ isrPc = "idle"
    /\ taskPc = "idle"
    /\ rh = 0
    /\ c = 0
    /\ popRet = 0
    /\ line = [i \in 0..(LINE_SIZE - 1) |-> 0]
    /\ idx = 0
    /\ dashCounter = 0
    /\ s_vehicle = vehicle
    /\ typed = keys
    /\ pollsLeft = polls
    /\ accepted = <<>>
    /\ popped = <<>>
    /\ nDropped = 0
    /\ parsed = <<>>
    /\ arrivedInPoll = FALSE
    /\ handled = [kind |-> "none", branch |-> "none", cmd |-> <<>>, acc |-> <<>>, ch |-> 0]
    /\ uartTx = <<>>
    /\ logTx = <<>>
    /\ nDraws = IF vehicle THEN 1 ELSE 0

NextCli ==
    \/ Isr_Enter \/ Isr_Push \/ Isr_Rearm
    \/ Task_Poll \/ Pop_ReadHead \/ Pop_Compare \/ Pop_Load \/ Pop_Advance
    \/ Task_Handle \/ Task_Dash

---------------------------------------------------------------------------
(* The ring buffer under a long byte stream: every byte carries its own    *)
(* number, so that a lost, repeated or reordered byte shows.               *)

\* bytes the terminal sends in the ring-buffer runs
MaxPushes == 68

\* polls of CLI_IF_Task in the ring-buffer runs
MaxPollsRing == 2

RingStream == [i \in 1..MaxPushes |-> i % 256]

InitRing ==
    /\ Vehicle_Init
    /\ vuPc = "idle"
    /\ nOps = 0
    /\ CLI_IF_Init(RingStream, TRUE, MaxPollsRing)
    /\ Log_Boot(TRUE)
    /\ CAN_IF_Boot
    /\ CAN_IF_Init(<<>>)
    /\ Boot_Jumped

SpecRing == InitRing /\ [][NextCli]_vars

---------------------------------------------------------------------------
(* The command line under typed commands *)

\* "veh speed 42.5\r"
KEYS_speed_42_5 ==
    <<118, 101, 104, 32, 115, 112, 101, 101, 100, 32, 52, 50, 46, 53, 13>>

\* "veh cool-hot\r\n"
KEYS_cool_hot_crlf ==
    <<118, 101, 104, 32, 99, 111, 111, 108, 45, 104, 111, 116, 13, 10>>

\* "h\x00x\r"
KEYS_h_nul_x ==
    <<104, 0, 120, 13>>

\* "help\n"
KEYS_help_lf ==
    <<104, 101, 108, 112, 10>>

\* "bogus\r"
KEYS_bogus ==
    <<98, 111, 103, 117, 115, 13>>

\* "log off\r"
KEYS_log_off ==
    <<108, 111, 103, 32, 111, 102, 102, 13>>

\* "log on\r"
KEYS_log_on ==
    <<108, 111, 103, 32, 111, 110, 13>>

\* "veh speed nan\r"
KEYS_speed_nan ==
    <<118, 101, 104, 32, 115, 112, 101, 101, 100, 32, 110, 97, 110, 13>>

\* "veh speed abc\r"
KEYS_speed_abc ==
    <<118, 101, 104, 32, 115, 112, 101, 101, 100, 32, 97, 98, 99, 13>>

\* "veh speed -7\r"
KEYS_speed_neg ==
    <<118, 101, 104, 32, 115, 112, 101, 101, 100, 32, 45, 55, 13>>

\* "veh speed 1e3\r"
KEYS_speed_1e3 ==
    <<118, 101, 104, 32, 115, 112, 101, 101, 100, 32, 49, 101, 51, 13>>

\* one character more than the line buffer has slots, then CR
KEYS_long == [i \in 1..(LINE_SIZE + 1) |-> 120] \o <<CR>>

\* polls of CLI_IF_Task in the command-line runs
MaxPollsCli == 2

CliRuns ==
    { [keys |-> KEYS_speed_42_5 \o KEYS_cool_hot_crlf, vehicle |-> TRUE],
      [keys |-> KEYS_h_nul_x \o KEYS_help_lf \o KEYS_bogus, vehicle |-> TRUE],
      [keys |-> KEYS_long, vehicle |-> TRUE],
      [keys |-> KEYS_log_off \o KEYS_log_on, vehicle |-> TRUE],
      [keys |-> KEYS_speed_neg \o KEYS_cool_hot_crlf, vehicle |-> FALSE],
      [keys |-> KEYS_speed_42_5 \o KEYS_speed_abc, vehicle |-> TRUE],
      [keys |-> KEYS_speed_nan, vehicle |-> TRUE],
      [keys |-> KEYS_speed_1e3 \o KEYS_speed_neg, vehicle |-> TRUE] }

InitCli ==
    /\ Vehicle_Init
    /\ vuPc = "idle"
    /\ nOps = 0
    /\ \E run \in CliRuns : CLI_IF_Init(run.keys, run.vehicle, MaxPollsCli)
    /\ Log_Boot(TRUE)
    /\ CAN_IF_Boot
    /\ CAN_IF_Init(<<>>)
    /\ Boot_Jumped

SpecCli == InitCli /\ [][NextCli]_vars

---------------------------------------------------------------------------
(* The dashboard cadence over many polls, one command typed meanwhile *)

\* polls of CLI_IF_Task in the dashboard runs
MaxPollsDash == 101

InitDash ==
    /\ Vehicle_Init
    /\ vuPc = "idle"
    /\ nOps = 0
    /\ CLI_IF_Init(KEYS_help_lf, TRUE, MaxPollsDash)
    /\ Log_Boot(TRUE)
    /\ CAN_IF_Boot
    /\ CAN_IF_Init(<<>>)
    /\ Boot_Jumped

SpecDash == InitDash /\ [][NextCli]_vars

---------------------------------------------------------------------------
(* The drain loop of CLI_IF_Task under fair scheduling: an interrupt that   *)
(* has been entered runs to completion, and the task runs whenever no       *)
(* interrupt is being served.                                               *)

\* bytes the terminal sends in the drain runs
MaxDrainBytes == 5

\* polls of CLI_IF_Task in the drain runs
MaxPollsDrain == 2

\* "ABCDE": every byte differs from the others
DrainStream == [i \in 1..MaxDrainBytes |-> 64 + i]

InitDrain ==
    /\ Vehicle_Init
    /\ vuPc = "idle"
    /\ nOps = 0
    /\ CLI_IF_Init(DrainStream, TRUE, MaxPollsDrain)
    /\ Log_Boot(TRUE)
    /\ CAN_IF_Boot
    /\ CAN_IF_Init(<<>>)
    /\ Boot_Jumped

\* the steps of a CLI_IF_Task call that has begun
TaskRun ==
    Pop_ReadHead \/ Pop_Compare \/ Pop_Load \/ Pop_Advance \/ Task_Handle \/ Task_Dash

\* the steps of a receive interrupt that has been entered
IsrRun == Isr_Push \/ Isr_Rearm

SpecDrain ==
    InitDrain /\ [][NextCli]_vars /\ WF_vars(TaskRun) /\ WF_vars(IsrRun)

---------------------------------------------------------------------------
(* The bus-receive logging flag: the CLI toggles it while CanRxTask         *)
(* processes received frames.                                               *)

\* the telemetry frame of speed 25.0, rpm 2000, temperature 85.0, and an
\* extended remote frame without payload
CanFrames ==
    { [StdId |-> 256, ExtId |-> 0, IDE |-> 0, RTR |-> 0, DLC |-> 6,
       Data |-> <<250, 0, 208, 7, 50, 3>>],
      [StdId |-> 0, ExtId |-> 74565, IDE |-> 1, RTR |-> 1, DLC |-> 0,
       Data |-> <<>>] }

InitCanLog ==
    /\ Vehicle_Init
    /\ vuPc = "idle"
    /\ nOps = 0
    /\ CLI_IF_Init(KEYS_log_on \o KEYS_log_off \o KEYS_log_off \o KEYS_log_on,
                   TRUE, MaxPollsCli)
    /\ Log_Boot(TRUE)
    /\ CAN_IF_Boot
    /\ CAN_IF_Init(<<>>)
    /\ Boot_Jumped

\* CanRxTask: CAN_IF_ProcessRxMsg(&msg) for a frame popped from the queue
CanRxTask_Process ==
    /\ isrPc = "idle"
    /\ \E msg \in CanFrames : CAN_IF_ProcessRxMsg(msg)
    /\ UNCHANGED <<line, idx, parsed, handled, uartTx>>
    /\ UNCHANGED <<isrVars, popVars, cfgVars, pollVars, vehVars, vehCtl, canVars, bootVars>>

NextCanLog == NextCli \/ CanRxTask_Process

SpecCanLog == InitCanLog /\ [][NextCanLog]_vars

---------------------------------------------------------------------------
(* The log facility driven by its callers, from program start: no sink     *)
(* until Log_Init is called.                                               *)

\* the four levels of log_level_t and one value outside the enumeration
LogLevels == LOG_LEVEL_ERROR..(LOG_LEVEL_DEBUG + 1)

\* a module tag of 30 characters, all 'T'
TAG_LONG == [i \in 1..30 |-> 84]

\* module arguments: NULL, "CLI", and the long tag
LogTags == {NULL_TAG, TAG_CLI, TAG_LONG}

\* a message of n characters, 'a' 'b' 'c' ... repeating
MsgOfLen(n) == [i \in 1..n |-> 97 + ((i - 1) % 26)]

\* expanded message lengths: empty, short, and around sizeof(msgBuf)
LogMsgLens == {0, 5, MSG_BUF_SIZE - 1, MSG_BUF_SIZE, MSG_BUF_SIZE + 12}

InitLog ==
    /\ Vehicle_Init
    /\ vuPc = "idle"
    /\ nOps = 0
    /\ CLI_IF_Init(<<>>, TRUE, 0)
    /\ Log_Boot(FALSE)
    /\ CAN_IF_Boot
    /\ CAN_IF_Init(<<>>)
    /\ Boot_Jumped

\* Log_Init(huart): huart may be NULL
Log_Init ==
    /\ \E huart \in BOOLEAN : s_logUart' = huart
    /\ UNCHANGED <<s_vehicle, s_canLogging, s_logLevel, logCall>>
    /\ UNCHANGED <<isrVars, popVars, lineVars, pollVars, vehVars, vehCtl, canVars, bootVars>>

\* Log_SetLevel(level)
Log_SetLevel ==
    /\ \E level \in LogLevels : s_logLevel' = level
    /\ UNCHANGED <<s_vehicle, s_canLogging, s_logUart, logCall>>
    /\ UNCHANGED <<isrVars, popVars, lineVars, pollVars, vehVars, vehCtl, canVars, bootVars>>

\* a caller's Log_Write(level, module, fmt, ...)
Log_Call ==
    /\ \E level \in LogLevels, module \in LogTags, n \in LogMsgLens :
          /\ logTx' = Log_Write(<<>>, level, module, MsgOfLen(n))
          /\ logCall' = [level |-> level, module |-> module, msg |-> MsgOfLen(n)]
    /\ UNCHANGED <<s_vehicle, s_canLogging, s_logLevel, s_logUart>>
    /\ UNCHANGED <<line, idx, parsed, handled, uartTx>>
    /\ UNCHANGED <<isrVars, popVars, pollVars, vehVars, vehCtl, canVars, bootVars>>

NextLog == Log_Init \/ Log_SetLevel \/ Log_Call

SpecLog == InitLog /\ [][NextLog]_vars

---------------------------------------------------------------------------
(* The PhysicalModel API driven by serialized callers *)

DtInputs == {-1 * Scale, 0, 10}
SpeedInputs == {NaN, -Huge, -1, 0, 4250, SPEED_MAX, SPEED_MAX + 1, Huge}
RpmInputs == {0, RPM_MIN - 1, RPM_MIN, 3000, RPM_MAX, RPM_MAX + 1, 65535}
TempInputs == {NaN, -Huge, TEMP_MIN - 1, TEMP_MIN, 8500, TEMP_MAX, TEMP_MAX + 1, Huge}

InitVehicle ==
    /\ Vehicle_Init
    /\ vuPc = "idle"
    /\ nOps = 0
    /\ CLI_IF_Init(<<>>, TRUE, 0)
    /\ Log_Boot(TRUE)
    /\ CAN_IF_Boot
    /\ CAN_IF_Init(<<>>)
    /\ Boot_Jumped

CallUpdate ==
    /\ nOps < MaxOps
    /\ \E dt \in DtInputs : Vehicle_Update(dt)
    /\ nOps' = nOps + 1
    /\ UNCHANGED cliVars

StepUpdate ==
    /\ (VU_Decay \/ VU_ClampSpeed \/ VU_LagRpm \/ VU_ClampRpm \/ VU_Temp \/ VU_ClampTemp)
    /\ UNCHANGED <<nOps, cliVars>>

CallSetTargetSpeed ==
    /\ nOps < MaxOps
    /\ vuPc = "idle"
    /\ \E v \in SpeedInputs : Vehicle_SetTargetSpeed(v)
    /\ nOps' = nOps + 1
    /\ UNCHANGED <<vuPc, cliVars>>

CallForce ==
    /\ nOps < MaxOps
    /\ vuPc = "idle"
    /\ \E s \in SpeedInputs, r \in RpmInputs, t \in TempInputs : Vehicle_Force(s, r, t)
    /\ nOps' = nOps + 1
    /\ UNCHANGED <<vuPc, cliVars>>

NextVehicle == CallUpdate \/ StepUpdate \/ CallSetTargetSpeed \/ CallForce

SpecVehicle == InitVehicle /\ [][NextVehicle]_vars

---------------------------------------------------------------------------
(* The command line while the vehicle task steps the model.  The calls on  *)
(* the vehicle state are serialized: a command is dispatched only between  *)
(* two Vehicle_Update calls, never inside one.                             *)

\* Vehicle_Update calls of the vehicle task in these runs
MaxUpdatesCli == 2

InitCliVeh ==
    /\ Vehicle_Init
    /\ vuPc = "idle"
    /\ nOps = 0
    /\ CLI_IF_Init(KEYS_speed_42_5 \o KEYS_cool_hot_crlf, TRUE, MaxPollsCli)
    /\ Log_Boot(TRUE)
    /\ CAN_IF_Boot
    /\ CAN_IF_Init(<<>>)
    /\ Boot_Jumped

\* the vehicle task calls Vehicle_Update(&vehicle, 0.1f)
VehTask_Update ==
    /\ nOps < MaxUpdatesCli
    /\ Vehicle_Update(10)
    /\ nOps' = nOps + 1
    /\ UNCHANGED cliVars

\* a step of the CLI, its handler held off while Vehicle_Update is under way
CliSerialized == NextCli /\ (taskPc = "handle" => vuPc = "idle")

NextCliVeh == CliSerialized \/ VehTask_Update \/ StepUpdate

SpecCliVeh == InitCliVeh /\ [][NextCliVeh]_vars

---------------------------------------------------------------------------
(* The bus receive pipeline: the receive interrupt queues frames, CanRxTask *)
(* pops and processes them.  The task is scheduled fairly.                  *)

\* frames the bus delivers in the pipeline runs
MaxCanFrames == 8

\* capacity of the receive queue in the pipeline runs
MaxCanQueue == 3

\* frame number i: a data frame whose identifier and payload carry i
CanFrameNo(i) ==
    [StdId |-> 256 + i, ExtId |-> 0, IDE |-> 0, RTR |-> 0, DLC |-> 1, Data |-> <<i>>]

CanStream == [i \in 1..MaxCanFrames |-> CanFrameNo(i)]

InitCanRx ==
    /\ Vehicle_Init
    /\ vuPc = "idle"
    /\ nOps = 0
    /\ CLI_IF_Init(<<>>, TRUE, 0)
    /\ Log_Boot(TRUE)
    /\ CAN_IF_Boot
    /\ CAN_IF_Init(CanStream)
    /\ Boot_Jumped

\* the interrupt putting the newest frame in place of the oldest when full
Can_RxIsr_OverwritesOldest ==
    /\ canWire # <<>>
    /\ canWire' = Tail(canWire)
    /\ IF Len(canQueue) < MaxCanQueue
       THEN /\ canQueue' = Append(canQueue, Head(canWire))
            /\ canAccepted' = Append(canAccepted, Head(canWire))
            /\ UNCHANGED canDropped
       ELSE /\ canQueue' = Append(Tail(canQueue), Head(canWire))
            /\ canDropped' = canDropped + 1
            /\ UNCHANGED canAccepted
    /\ UNCHANGED <<canTx, canMsg, canTaskPc, canProcessed>>
    /\ UNCHANGED <<isrVars, popVars, lineVars, cfgVars, pollVars, vehVars, vehCtl, bootVars>>

\* the receive interrupt: the frame is built and pushed without waiting;
\* when the queue is full the push fails and the frame is gone
Can_RxIsr ==
    /\ canWire # <<>>
    /\ canWire' = Tail(canWire)
    /\ IF Len(canQueue) < MaxCanQueue
       THEN /\ canQueue' = Append(canQueue, Head(canWire))
            /\ canAccepted' = Append(canAccepted, Head(canWire))
            /\ UNCHANGED canDropped
       ELSE /\ canDropped' = canDropped + 1
            /\ UNCHANGED <<canQueue, canAccepted>>
    /\ UNCHANGED <<canTx, canMsg, canTaskPc, canProcessed>>
    /\ UNCHANGED <<isrVars, popVars, lineVars, cfgVars, pollVars, vehVars, vehCtl, bootVars>>

\* CanRxTask: the blocking pop, which returns once the queue holds a frame
CanRxTask_Get ==
    /\ canTaskPc = "get"
    /\ canQueue # <<>>
    /\ canMsg' = Head(canQueue)
    /\ canQueue' = Tail(canQueue)
    /\ canTaskPc' = "process"
    /\ UNCHANGED <<canTx, canWire, canAccepted, canProcessed, canDropped>>
    /\ UNCHANGED <<isrVars, popVars, lineVars, cfgVars, pollVars, vehVars, vehCtl, bootVars>>

\* CanRxTask: CAN_IF_ProcessRxMsg(&msg) for the frame just popped
CanRxTask_Run ==
    /\ canTaskPc = "process"
    /\ CAN_IF_ProcessRxMsg(canMsg)
    /\ canProcessed' = Append(canProcessed, canMsg)
    /\ canTaskPc' = "get"
    /\ UNCHANGED <<canTx, canWire, canQueue, canMsg, canAccepted, canDropped>>
    /\ UNCHANGED <<line, idx, parsed, handled, uartTx>>
    /\ UNCHANGED <<isrVars, popVars, cfgVars, pollVars, vehVars, vehCtl, bootVars>>

\* the steps of CanRxTask
CanRxTask == CanRxTask_Get \/ CanRxTask_Run

NextCanRx == Can_RxIsr \/ CanRxTask_Get \/ CanRxTask_Run

SpecCanRx == InitCanRx /\ [][NextCanRx]_vars /\ WF_vars(CanRxTask)

---------------------------------------------------------------------------
(* The PhysicalModel left alone: the periodic task steps it, no command is  *)
(* ever issued.  The run is not cut short: the task is activated for ever.  *)

\* the periods the task passes as dt_s (0.01 s and 0.1 s)
IdleDt == {1, 10}

IdleTick ==
    /\ \E dt \in IdleDt : Vehicle_Update(dt)
    /\ UNCHANGED <<nOps, cliVars>>

NextIdle == IdleTick \/ StepUpdate

SpecIdle == InitVehicle /\ [][NextIdle]_vars /\ WF_vars(NextIdle)

---------------------------------------------------------------------------
(* The bootloader from reset, over images and button levels *)

\* first words of the image: erased flash, zero, just below SRAM, the first
\* SRAM byte, inside SRAM, the last SRAM byte, the end of SRAM, just above
\* it, a page above it, and a flash address
StackInputs ==
    { U32(65535, 65535), U32(0, 0), U32(8191, 65535), U32(8192, 0), U32(8192, 4096),
      U32(8193, 65535), U32(8194, 0), U32(8194, 1), U32(8195, 0), U32(2048, 32768) }

\* second words of the image: a reset handler in the application, erased flash
ResetInputs == { APP_IMAGE.reset, U32(65535, 65535) }

InitBoot ==
    /\ Vehicle_Init
    /\ vuPc = "idle"
    /\ nOps = 0
    /\ CLI_IF_Init(<<>>, TRUE, 0)
    /\ Log_Boot(TRUE)
    /\ CAN_IF_Boot
    /\ CAN_IF_Init(<<>>)
    /\ \E pin \in {0, 1}, sp \in StackInputs, rv \in ResetInputs, pending \in {{}, {1}} :
          Boot_Reset(pin, [stack |-> sp, reset |-> rv], pending)

NextBoot == BootRun

SpecBoot == InitBoot /\ [][NextBoot]_vars /\ WF_vars(BootRun)

---------------------------------------------------------------------------
(* The telemetry task: the model is stepped, set and forced by serialized  *)
(* callers, and its state is encoded and sent between the calls.           *)

\* CAN_IF_SendTelemetry(&vehicle) between two calls on the model
TelemetryTask_Send ==
    /\ nOps < MaxOps
    /\ vuPc = "idle"
    /\ CAN_IF_SendTelemetry
    /\ nOps' = nOps + 1
    /\ UNCHANGED <<canWire, canQueue, canMsg, canTaskPc, canAccepted, canProcessed,
                   canDropped>>
    /\ UNCHANGED <<isrVars, popVars, lineVars, cfgVars, pollVars, vehVars, vuPc, bootVars>>

\* states forced before sending: the known state, the corners of the
\* ranges, a state between them, and a NaN speed and temperature
TelemetryStates ==
    { <<2500, 2000, 8500>>, <<SPEED_MIN, RPM_MIN, TEMP_MIN>>,
      <<SPEED_MAX, RPM_MAX, TEMP_MAX>>, <<12345, 4321, 2005>>, <<NaN, 3000, NaN>> }

TelemetryForce ==
    /\ nOps < MaxOps
    /\ vuPc = "idle"
    /\ \E st \in TelemetryStates : Vehicle_Force(st[1], st[2], st[3])
    /\ nOps' = nOps + 1
    /\ UNCHANGED <<vuPc, cliVars>>

NextTelemetry == CallUpdate \/ StepUpdate \/ TelemetryForce \/ TelemetryTask_Send

SpecTelemetry == InitVehicle /\ [][NextTelemetry]_vars

---------------------------------------------------------------------------
(* Claims about the physical model *)

SpeedInRange == FLe(SPEED_MIN, speed_kph) /\ FLe(speed_kph, SPEED_MAX)
RpmInRange == RPM_MIN <= engine_rpm /\ engine_rpm <= RPM_MAX
TempInRange == FLe(TEMP_MIN, coolant_temp_c) /\ FLe(coolant_temp_c, TEMP_MAX)

\* C1: from the init defaults, after any sequence of serialized step,
\* set_target_speed and force calls, 0 <= speed <= 200, 600 <= rpm <= 6000
\* and 20 <= temperature <= 110 (checked whenever no step is under way).
C1_RangesAfterAnyCalls ==
    vuPc = "idle" => SpeedInRange /\ RpmInRange /\ TempInRange

\* C1, restricted to callers that never pass NaN: the ranges hold.
C1_RangesWithoutNaN ==
    (vuPc = "idle" /\ ~IsNaN(speed_kph) /\ ~IsNaN(coolant_temp_c))
        => SpeedInRange /\ RpmInRange /\ TempInRange

\* C2: set_target_speed leaves speed in range and force leaves all three
\* fields in range, whatever the arguments (negative, extreme, NaN).
C2_SettersNeverOutOfRange ==
    [][/\ CallSetTargetSpeed => SpeedInRange'
       /\ CallForce => (SpeedInRange' /\ RpmInRange' /\ TempInRange')]_vars

---------------------------------------------------------------------------
(* Claims about the ring buffer and the receive interrupt *)

\* the slot that holds the i-th oldest stored byte
Slot(i) == (s_cliTail + i - 1) % CLI_RX_BUF_SIZE

\* bytes accepted and not yet returned by cli_pop
Pending == Len(accepted) - Len(popped)

\* bytes the UART has delivered to the interrupt handler so far
Received == Len(accepted) + nDropped + (IF isrPc = "push" THEN 1 ELSE 0)

\* C3: with the receive interrupt pre-empting cli_pop between any two of its
\* memory accesses, the bytes cli_pop returns are the bytes cli_push accepted,
\* in order: what was returned is a prefix of what was accepted, and the
\* accepted bytes not yet returned sit in the buffer from tail on, in order.
C3_PopSequenceIsPushSequence ==
    /\ Len(popped) <= Len(accepted)
    /\ popped = SubSeq(accepted, 1, Len(popped))
    /\ Pending = Stored
    /\ \A i \in 1..Pending : s_cliBuf[Slot(i)] = accepted[Len(popped) + i]
    /\ taskPc = "popAdv" => c = accepted[Len(popped) + 1]

C3_Witness ==
    /\ isrPc = "rearm"
    /\ taskPc = "popAdv"
    /\ nDropped > 0
    /\ Len(popped) > 0
    /\ s_cliHead < s_cliTail

\* C4: a push into the full buffer (63 bytes stored) drops the byte: head,
\* tail and every slot are unchanged and the byte never joins the accepted
\* sequence, which is all that cli_pop later returns.
C4_DropOnFull ==
    /\ [][(Isr_Push /\ Pending = CLI_RX_BUF_SIZE - 1)
             => /\ UNCHANGED <<s_cliBuf, s_cliHead, s_cliTail, accepted>>
                /\ nDropped' = nDropped + 1]_vars
    /\ [][Pop_Advance => popped' = SubSeq(accepted, 1, Len(popped) + 1)]_vars

C4_Witness ==
    /\ isrPc = "rearm"
    /\ nDropped > 0
    /\ Pending = CLI_RX_BUF_SIZE - 1

\* C5: no byte is pending exactly when head = tail; a cli_pop that compares
\* the indices while nothing is pending returns 0 and leaves both indices
\* and the output byte alone.
C5_EmptyIffHeadIsTail ==
    /\ [](Pending = 0 <=> s_cliHead = s_cliTail)
    /\ [][(Pop_Compare /\ Pending = 0)
             => /\ popRet' = 0
                /\ taskPc' = "dash"
                /\ UNCHANGED <<s_cliHead, s_cliTail, c, popped>>]_vars

C5_Witness ==
    /\ taskPc = "dash"
    /\ popRet = 0
    /\ Len(popped) > 0
    /\ popped = accepted

\* a step of the receive interrupt
IsrStep == isrPc # "idle" \/ isrPc' # "idle"

\* C6: head changes only in the interrupt's push, tail only in the task's
\* cli_pop; an interrupt step writes no slot but the one at head and leaves
\* tail, the line accumulator, the physical state and the logging
\* configuration alone.
C6_IndexOwnership ==
    [][/\ s_cliHead' # s_cliHead => isrPc = "push"
       /\ s_cliTail' # s_cliTail => (isrPc = "idle" /\ taskPc = "popAdv")
       /\ IsrStep =>
            /\ \A i \in DOMAIN s_cliBuf : i # s_cliHead => s_cliBuf'[i] = s_cliBuf[i]
            /\ UNCHANGED <<s_cliTail, c, popRet, line, idx, vehVars>>
            /\ UNCHANGED <<s_logLevel, s_logUart, s_canLogging, s_vehicle>>
            /\ UNCHANGED <<taskPc, dashCounter, uartTx, logTx>>]_vars

C6_Witness ==
    /\ isrPc = "rearm"
    /\ idx > 0
    /\ s_cliTail > 0
    /\ Pending = CLI_RX_BUF_SIZE - 1
    /\ nDropped > 0

\* C7: the handler never waits (each of its steps is enabled); when it comes
\* to re-arming, the byte has been stored or dropped and reception is not
\* yet armed; and whenever it is not running, every delivered byte has been
\* stored or dropped and single-byte reception is armed.
C7_PushThenRearm ==
    /\ isrPc = "push" => (~rxArmed /\ ENABLED Isr_Push)
    /\ isrPc = "rearm" =>
          (~rxArmed /\ ENABLED Isr_Rearm /\ Received + Len(typed) = MaxPushes)
    /\ isrPc = "idle" => (rxArmed /\ Received + Len(typed) = MaxPushes)

C7_Witness ==
    /\ isrPc = "idle"
    /\ rxArmed
    /\ nDropped > 0
    /\ Len(accepted) > CLI_RX_BUF_SIZE

---------------------------------------------------------------------------
(* Claims about line assembly and dispatch *)

IsEol(ch) == ch = CR \/ ch = LF

\* C8: a terminator arriving with a non-empty accumulator dispatches exactly
\* the accumulated bytes as one command and empties the accumulator; with an
\* empty accumulator it dispatches nothing, changes no state and sends the
\* prompt only.
C8_LineAssembly ==
    [][(Task_Handle /\ IsEol(c)) =>
          IF idx > 0
          THEN /\ handled'.kind = "dispatch"
               /\ handled'.cmd = Accumulated
               /\ idx' = 0
          ELSE /\ handled'.kind = "prompt"
               /\ uartTx' = TX_PROMPT
               /\ UNCHANGED <<line, idx, vehVars, cfgVars>>]_vars

\* C8 for lines without a NUL byte: the dispatched command is the
\* accumulated text.
C8_LineAssemblyWithoutNul ==
    [][(Task_Handle /\ IsEol(c) /\ idx > 0 /\ \A k \in 1..idx : Accumulated[k] # 0)
          => (handled'.kind = "dispatch" /\ handled'.cmd = Accumulated /\ idx' = 0)]_vars

\* a normal byte arrives while the accumulator is at capacity
OverflowByte == Task_Handle /\ ~IsEol(c) /\ idx = LINE_SIZE - 1

\* C9 as stated: the byte that overflows the accumulator is discarded,
\* consumed, not re-queued, and still echoed.
C9_OverflowStillEchoed ==
    [][OverflowByte =>
          /\ UNCHANGED <<line, idx, s_cliBuf, s_cliHead, s_cliTail, typed>>
          /\ uartTx' = <<c>>]_vars

\* C9 amended: the byte that overflows the accumulator is discarded,
\* consumed, not re-queued, and not echoed: nothing is sent.
C9_OverflowDiscardedSilently ==
    [][OverflowByte =>
          /\ UNCHANGED <<line, idx, s_cliBuf, s_cliHead, s_cliTail, typed>>
          /\ popped[Len(popped)] = c
          /\ uartTx' = <<>>]_vars

C9_Witness ==
    /\ handled.kind = "discard"
    /\ idx = LINE_SIZE - 1
    /\ uartTx = <<>>
    /\ taskPc = "popHead"

\* the line `veh cool-hot` is completed with a vehicle bound
CoolHotLine == Task_Handle /\ IsEol(c) /\ Accumulated = STR_veh_cool_hot /\ s_vehicle

---------------------------------------------------------------------------
(* Claims about the commands *)

NumberTexts ==
    { [text |-> <<52, 50, 46, 53>>, value |-> 4250],       \* "42.5"
      [text |-> <<45, 55>>, value |-> -700],               \* "-7"
      [text |-> <<49, 101, 51>>, value |-> 100000] }       \* "1e3"

\* the line `veh speed <text>` is completed with a vehicle bound
SpeedLine(text) ==
    Task_Handle /\ IsEol(c) /\ s_vehicle /\ Accumulated = STR_veh_speed_ \o text

\* v brought into [0, 200]
InSpeedRange(v) == IF v < SPEED_MIN THEN SPEED_MIN ELSE IF v > SPEED_MAX THEN SPEED_MAX ELSE v

\* C12: dispatching `veh speed <v>` with numeric text v (vehicle bound) sets
\* speed to v clamped into [0, 200], leaves rpm and temperature unchanged and
\* sends the acknowledgement "OK: speed updated".
C12_VehSpeedSetsClampedSpeed ==
    [][\A n \in NumberTexts :
          SpeedLine(n.text) =>
              /\ speed_kph' = InSpeedRange(n.value)
              /\ UNCHANGED <<engine_rpm, coolant_temp_c>>
              /\ uartTx' = TX_SPEED_OK]_vars

C12_Witness ==
    /\ handled.kind = "dispatch"
    /\ handled.cmd = STR_veh_speed_ \o <<52, 50, 46, 53>>
    /\ speed_kph = 4250
    /\ engine_rpm = 800
    /\ coolant_temp_c = 3000
    /\ uartTx = TX_SPEED_OK

\* the line l is no entry of the command table
NoEntry(l) ==
    /\ l \notin {STR_help, STR_h, STR_veh_cool_hot, STR_log_on, STR_log_off}
    /\ Take(l, 10) # STR_veh_speed_

\* a non-empty line that is no entry of the command table is completed
UnmatchedLine == Task_Handle /\ IsEol(c) /\ idx > 0 /\ NoEntry(Accumulated)

\* C13: a completed line that matches no entry of the command table
\* produces the unknown-command response and changes neither the physical
\* state nor the bus-logging flag.
C13_UnmatchedLineIsUnknown ==
    [][UnmatchedLine =>
          /\ uartTx' = TX_UNKNOWN
          /\ UNCHANGED <<vehVars, s_canLogging>>]_vars

\* C13, restricted to lines without a NUL byte: it holds.
C13_UnmatchedLineWithoutNul ==
    [][(UnmatchedLine /\ \A k \in 1..idx : Accumulated[k] # 0) =>
          /\ uartTx' = TX_UNKNOWN
          /\ UNCHANGED <<vehVars, s_canLogging>>]_vars

\* texts after `veh speed ` that are no number: "abc" and the empty text
NonNumericTexts == { <<97, 98, 99>>, <<>> }

\* C14: a malformed line, `veh speed ` followed by non-numeric or empty text
\* included, is answered with the unknown-command response and leaves the
\* physical state unchanged.
C14_MalformedSpeedIsUnknown ==
    [][\A t \in NonNumericTexts :
          SpeedLine(t) => (uartTx' = TX_UNKNOWN /\ UNCHANGED vehVars)]_vars

\* the part of C14 the code keeps: rpm and temperature are left alone
C14_MalformedSpeedKeepsRpmAndTemp ==
    [][\A t \in NonNumericTexts :
          SpeedLine(t) => UNCHANGED <<engine_rpm, coolant_temp_c>>]_vars

\* the bytes tx end with the prompt "> "
EndsWithPrompt(tx) ==
    Len(tx) >= 2 /\ SubSeq(tx, Len(tx) - 1, Len(tx)) = <<62, 32>>

\* C15: every dispatched command line and every empty line produces
\* terminal output whose last two characters are the prompt "> ", whichever
\* branch of the dispatch is taken.
C15_OutputEndsWithPrompt ==
    [][(Task_Handle /\ IsEol(c)) =>
          (handled'.kind \in {"prompt", "dispatch"} /\ EndsWithPrompt(uartTx'))]_vars

C15_Witness ==
    /\ handled.kind = "dispatch"
    /\ handled.branch = "noVehicle"
    /\ handled.cmd = STR_veh_cool_hot
    /\ uartTx = TX_NO_VEHICLE

---------------------------------------------------------------------------
(* Claims about the poll function *)

\* calls of CLI_IF_Task that have returned, in the dashboard runs
PollsDone == (MaxPollsDash - pollsLeft) - (IF taskPc = "idle" THEN 0 ELSE 1)

\* C16: the dashboard is rendered once during initialization and thereafter
\* on exactly every 50th call of the poll function and on no other; the poll
\* counter is reset to 0 on each render and stays in 0..49 between polls.
C16_DashboardEvery50thPoll ==
    /\ nDraws = 1 + (PollsDone \div DASH_PERIOD)
    /\ dashCounter = PollsDone % DASH_PERIOD
    /\ dashCounter \in 0..49

C16_Witness ==
    /\ taskPc = "idle"
    /\ PollsDone = 2 * DASH_PERIOD
    /\ nDraws = 3
    /\ dashCounter = 0
    /\ handled.kind = "dispatch"

\* C17: each poll drains all available bytes: when no byte arrived while the
\* poll ran, the ring buffer is empty as the poll returns and every byte that
\* was buffered has been passed to the line parser exactly once, in order;
\* and a poll that has begun returns once the bytes stop arriving.
C17_PollDrainsBuffer ==
    /\ [][(Task_Dash /\ ~arrivedInPoll) =>
              (Stored' = 0 /\ parsed' = accepted')]_vars
    /\ [][Task_Handle =>
              (parsed' = SubSeq(accepted, 1, Len(parsed')) /\ parsed' = popped)]_vars
    /\ ((taskPc # "idle") ~> (taskPc = "idle"))

C17_Witness ==
    /\ taskPc = "dash"
    /\ ~arrivedInPoll
    /\ pollsLeft = MaxPollsDrain - 1
    /\ parsed = DrainStream
    /\ Stored = 0

---------------------------------------------------------------------------
(* Claims about logging *)

\* a line with exactly the text l is completed
CommandLine(l) == Task_Handle /\ IsEol(c) /\ Accumulated = l

C19_DropsBelowConfigured ==
    [][(Log_Call /\ s_logUart) =>
          ((logTx' = <<>>) <=> (logCall'.level < s_logLevel))]_vars

\* C19 amended: Log_Write drops a record whose level is numerically above
\* the configured level, or when no sink has been configured, and otherwise
\* emits it; the configured level starts at INFO.
C19_DropsAboveConfigured ==
    /\ s_logLevel = LOG_LEVEL_INFO
    /\ [][Log_Call =>
              ((logTx' = <<>>) <=> (logCall'.level > s_logLevel \/ ~s_logUart))]_vars

C19_Witness ==
    /\ s_logUart
    /\ s_logLevel = LOG_LEVEL_WARN
    /\ logCall.level = LOG_LEVEL_ERROR
    /\ logCall.module = TAG_CLI
    /\ Len(logTx) = 1

\* the severity characters, by level number
SeverityChars == <<69, 87, 73, 68>>

\* the line `[<severity-char>][<module_tag>] <message>` CR LF of a call
FormattedLine(call) ==
    <<91, IF call.level \in 0..3 THEN SeverityChars[call.level + 1] ELSE 63, 93, 91>>
        \o (IF call.module = NULL_TAG THEN <<71, 69, 78>> ELSE call.module)
        \o <<93, 32>> \o call.msg \o <<13, 10>>

\* tx is one transmission of the call's line: the whole line when it fits
\* the buffers, and otherwise at most 160 bytes that begin as the line does
OneLineOf(tx, call) ==
    /\ Len(tx) = 1
    /\ IF Len(call.msg) < MSG_BUF_SIZE /\ Len(FormattedLine(call)) < OUT_BUF_SIZE
       THEN tx[1] = FormattedLine(call)
       ELSE /\ Len(tx[1]) <= OUT_BUF_SIZE
            /\ Take(tx[1], 9) = Take(FormattedLine(call), 9)

CutLine(call) ==
    FormattedLine([call EXCEPT !.msg = Take(call.msg, MSG_BUF_SIZE - 1)])

\* C21: Log_Write truncates rather than fails: the message body is cut to at
\* most 127 characters, at most 160 bytes are transmitted for one record, and
\* every transmitted byte is a character of the formatted line (no NUL).
C21_TruncatesToLineCharacters ==
    [][Log_Call =>
          \A k \in 1..Len(logTx') :
              /\ Len(logTx'[k]) <= OUT_BUF_SIZE
              /\ logTx'[k] = Take(CutLine(logCall'), Len(logTx'[k]))]_vars

\* the part of C21 the code keeps: at most 160 bytes, of which all but a
\* 160th are the characters of the line with its message cut to 127
C21_TruncatesWithinBuffers ==
    [][Log_Call =>
          \A k \in 1..Len(logTx') :
              /\ Len(logTx'[k]) <= OUT_BUF_SIZE
              /\ Take(logTx'[k], OUT_BUF_SIZE - 1)
                     = Take(CutLine(logCall'), OUT_BUF_SIZE - 1)
              /\ Len(logTx'[k]) = Min(Len(CutLine(logCall')), OUT_BUF_SIZE)]_vars

---------------------------------------------------------------------------
(* Claims about the bus interface *)

\* the 16-bit word in bytes k, k+1 of a payload, low byte first
WordAt(data, k) == data[k] + 256 * data[k + 1]

\* n tenths is a nearest integer to the float a (in hundredths) times 10
NearestTenths(n, a) == (10 * n - a) \in -5..5

\* the telemetry frame of an in-range state: the fixed identifier, 6 payload
\* bytes, little-endian: bytes 0-1 = round(speed x 10), bytes 2-3 = rpm,
\* bytes 4-5 = round(temperature x 10), no field overflowing 16 bits
FrameEncodes(f) ==
    /\ f.StdId = 256 /\ f.IDE = 0 /\ f.DLC = 6
    /\ Len(f.Data) = 6
    /\ \A k \in 1..6 : f.Data[k] \in 0..255
    /\ NearestTenths(WordAt(f.Data, 1), speed_kph)
    /\ WordAt(f.Data, 3) = engine_rpm
    /\ NearestTenths(WordAt(f.Data, 5), coolant_temp_c)
    /\ WordAt(f.Data, 5) < 32768

\* a telemetry frame is sent for an in-range state
InRangeSend == TelemetryTask_Send /\ SpeedInRange /\ RpmInRange /\ TempInRange

\* the state speed 25.0, rpm 2000, temperature 85.0
KnownState == speed_kph = 2500 /\ engine_rpm = 2000 /\ coolant_temp_c = 8500

\* C22 as stated: the encoding is bit-exact as described, and speed 25.0,
\* rpm 2000, temperature 85.0 encodes to FA 00 D0 07 32 03.
C22_TelemetryEncoding ==
    [][InRangeSend =>
          /\ FrameEncodes(canTx')
          /\ KnownState => canTx'.Data = <<250, 0, 208, 7, 50, 3>>]_vars

\* C22 amended: the encoding is bit-exact as described, and speed 25.0,
\* rpm 2000, temperature 85.0 encodes to FA 00 D0 07 52 03 (850 = 0x0352).
C22_TelemetryEncodingOf850 ==
    [][InRangeSend =>
          /\ FrameEncodes(canTx')
          /\ KnownState => canTx'.Data = <<250, 0, 208, 7, 82, 3>>]_vars

C22_Witness ==
    /\ speed_kph = 2500
    /\ engine_rpm = 2000
    /\ coolant_temp_c = 8500
    /\ canTx.Data = <<250, 0, 208, 7, 82, 3>>
    /\ canTx.StdId = 256

\* the frames CanRxTask holds or has processed, then those still queued
CanInFlight ==
    canProcessed \o (IF canTaskPc = "process" THEN <<canMsg>> ELSE <<>>) \o canQueue

\* C23: the interrupt-side capture never blocks (a frame arriving when the
\* queue is full is dropped and the queue is unchanged); every frame accepted
\* into the queue is eventually popped and processed exactly once, in arrival
\* order, given that the drain task keeps being scheduled; the drain is
\* suspended only while the queue is empty.
C23_ReceivePipeline ==
    /\ [](canWire # <<>> => ENABLED Can_RxIsr)
    /\ [][(Can_RxIsr /\ Len(canQueue) = MaxCanQueue) =>
              (UNCHANGED <<canQueue, canAccepted>> /\ canDropped' = canDropped + 1)]_vars
    /\ [](CanInFlight = canAccepted)
    /\ \A i \in 1..MaxCanFrames :
           (Len(canAccepted) >= i) ~> (Len(canProcessed) >= i)
    /\ []((canTaskPc = "get" /\ canQueue # <<>>) => ENABLED CanRxTask_Get)
    /\ [](canTaskPc = "process" => ENABLED CanRxTask_Run)

C23_Witness ==
    /\ canWire = <<>>
    /\ canDropped > 0
    /\ canQueue = <<>>
    /\ canTaskPc = "get"
    /\ Len(canProcessed) > MaxCanQueue
    /\ canProcessed = canAccepted

\* 30% of the distance from the current rpm to the target, in hundredths
LagStep == TruncDiv((target_rpm - U16ToFloat(engine_rpm)) * 3, 10)

\* C24: in one step with dt > 0 the speed is decayed to 0.98 x speed and
\* clamped, the rpm target 800 + 50 x speed is taken from that speed, and the
\* rpm moves 30% of the remaining distance toward the target, upward when the
\* target is above it and downward when it is below, never away from or past
\* the target, and is then clamped to [600, 6000].
C24_RpmLagsTowardTarget ==
    /\ [][VU_Decay => speed_kph' = FMulRatio(speed_kph, 98, 100)]_vars
    /\ [][(VU_LagRpm /\ ~IsNaN(speed_kph)) =>
              /\ U16ToFloat(engine_rpm') - (U16ToFloat(engine_rpm) + LagStep) \in (1 - Scale)..(Scale - 1)
              /\ (target_rpm >= U16ToFloat(engine_rpm)) =>
                     (engine_rpm' >= engine_rpm /\ U16ToFloat(engine_rpm') <= target_rpm)
              /\ (target_rpm <= U16ToFloat(engine_rpm)) =>
                     (engine_rpm' <= engine_rpm /\ U16ToFloat(engine_rpm') >= target_rpm)]_vars
    /\ [][VU_ClampRpm => (engine_rpm' >= RPM_MIN /\ engine_rpm' <= RPM_MAX)]_vars

WARM_TARGET == 90 * Scale

\* the temperature after moving 5% of the remaining distance toward 90
TowardWarm(t) == t + TruncDiv((WARM_TARGET - t) * 5, 100)

\* C25: in one step with dt > 0, if the rpm as updated by that same step
\* exceeds 1000 the temperature moves 5% of the remaining distance toward 90
\* (rising when below, falling when above, never crossing 90), otherwise it
\* decreases by 0.01; in both cases it is then clamped to [20, 110].
C25_TemperatureRule ==
    /\ [][VU_Temp =>
              IF engine_rpm > 1000
              THEN \/ /\ FLe(coolant_temp_c, WARM_TARGET)
                      /\ FLe(coolant_temp_c, coolant_temp_c')
                      /\ FLe(coolant_temp_c', WARM_TARGET)
                      /\ coolant_temp_c' = TowardWarm(coolant_temp_c)
                   \/ /\ FLe(WARM_TARGET, coolant_temp_c)
                      /\ FLe(coolant_temp_c', coolant_temp_c)
                      /\ FLe(WARM_TARGET, coolant_temp_c')
                      /\ coolant_temp_c' = TowardWarm(coolant_temp_c)
              ELSE /\ ~IsNaN(coolant_temp_c)
                   /\ coolant_temp_c' = coolant_temp_c - 1]_vars
    /\ [][VU_ClampTemp =>
              (FLe(TEMP_MIN, coolant_temp_c') /\ FLe(coolant_temp_c', TEMP_MAX))]_vars

\* the word lies in 0x20000000..0x20020000
InSram(w) == ~U32Lt(w, <<8192, 0>>) /\ ~U32Lt(<<8194, 0>>, w)

\* the image and the button allow the jump
JumpCase == b1Pin = 0 /\ InSram(flash.stack)

\* s is an initial part of t
IsPrefix(s, t) == Len(s) <= Len(t) /\ s = SubSeq(t, 1, Len(s))

C27_LineCursorInBuffer ==
    /\ [](idx \in 0..31 /\ DOMAIN line = 0..31)
    /\ [][(Task_Handle /\ (idx > 0 \/ ~IsEol(c))) =>
              /\ idx \in 0..31
              /\ \A k \in 0..31 : (k # idx => line'[k] = line[k])]_vars
    /\ [][(Task_Handle /\ handled'.kind = "dispatch") =>
              (Len(handled'.cmd) <= 31 /\ Len(handled'.acc) <= 31)]_vars
    /\ [][(Task_Handle /\ IsEol(c)) => idx' = 0]_vars

C27_Witness ==
    /\ handled.kind = "dispatch"
    /\ Len(handled.cmd) = 31
    /\ idx = 0
    /\ line[31] = 0
    /\ Len(parsed) > 32

\* C28: at every intermediate point inside a step, between any two writes
\* the step makes, each stored field is within its range, so a reader that
\* pre-empts the step never observes speed outside [0, 200], rpm outside
\* [600, 6000] or temperature outside [20, 110]: a write of the step made
\* with all fields in range leaves all fields in range.
C28_NoIntermediateOutOfRange ==
    [][(StepUpdate /\ SpeedInRange /\ RpmInRange /\ TempInRange) =>
          (SpeedInRange /\ RpmInRange /\ TempInRange)']_vars

\* C29: from the init state with no commands issued, repeated steps with
\* dt > 0 keep speed at 0 and rpm at 800 for ever, and the temperature
\* decreases by 0.01 on each step until it reaches the floor 20, which it
\* eventually reaches and, from one step to the next, never leaves.
C29_IdleCoolsToFloor ==
    /\ [](speed_kph = 0 /\ engine_rpm = 800)
    /\ [][VU_Temp => (coolant_temp_c >= 2000 /\ coolant_temp_c' = coolant_temp_c - 1)]_vars
    /\ [][VU_ClampTemp =>
              coolant_temp_c' = (IF coolant_temp_c < 2000 THEN 2000 ELSE coolant_temp_c)]_vars
    /\ [][vuPc # "temp" /\ vuPc # "clampTemp" => UNCHANGED coolant_temp_c]_vars
    /\ <>[](vuPc # "clampTemp" => coolant_temp_c = 2000)

C29_Witness ==
    /\ vuPc = "temp"
    /\ coolant_temp_c = 2000
    /\ speed_kph = 0
    /\ engine_rpm = 800

=============================================================================
